---- MODULE Spec2Model ----
(***************************************************************************)
(* Model of the external-authentication routes (externalRoute): the        *)
(* one-time token store and its sweep, the shared-secret gate, user        *)
(* find-or-create, organisation/team/membership provisioning, the team     *)
(* API token and the PMS webhook.                                          *)
(*                                                                         *)
(* A request handler runs on a single-threaded event loop: the code        *)
(* between two awaits is one atomic action, and every awaited database     *)
(* call, session call or fetch is a step of its own that other handlers    *)
(* may interleave with.                                                    *)
(*                                                                         *)
(* Strings that the code transforms (email, businessId) are sequences of   *)
(* one-character strings, so that toLowerCase and replace are computed.    *)
(* Time is in milliseconds, as Date.now().                                 *)
(***************************************************************************)
EXTENDS Integers, Sequences, FiniteSets, TLC

(* ------------------------------ bounds -------------------------------- *)

\* requests received in a run of the tenant specification
MaxCalls == 2

\* requests received in a run of the token specification
MaxTokenCalls == 3

\* handlers in flight at once
MaxInFlight == 2

\* advances of the clock
MaxTicks == 3

\* length of a businessId in the slug specification
MaxLen == 2

(* ----------------------------- constants ------------------------------ *)

TOKEN_EXPIRY_MS == 5 * 60 * 1000

\* The clock advances in steps of half the expiry window, so that an entry
\* is seen younger than, exactly as old as, and older than the window.
ClockStep == TOKEN_EXPIRY_MS \div 2

(* ------------------------------ strings ------------------------------- *)

\* the characters strings are made of
Chars == {"a", "b", "A", "B", "1", "-", "_"}

\* the characters in use of the class [a-z0-9-]
SlugChars == {"a", "b", "c", "y", "1", "-"}

\* the strings of at most n characters
Strings(n) == UNION {[1..k -> Chars] : k \in 0..n}

LowerChar(ch) == CASE ch = "A" -> "a" [] ch = "B" -> "b" [] OTHER -> ch

\* variant: the string as given
asGiven(s) == s

\* String.prototype.toLowerCase
toLowerCase(s) == [i \in 1..Len(s) |-> LowerChar(s[i])]

\* .replace(/[^a-z0-9-]/g, '-')
\* variant: nothing is replaced
replaceNothing(s) == s

\* variant: the class without the digits, /[^a-z-]/g
replaceNonLetter(s) ==
  [i \in 1..Len(s) |-> IF s[i] \in SlugChars \ {"1"} THEN s[i] ELSE "-"]

replaceNonSlug(s) == [i \in 1..Len(s) |-> IF s[i] \in SlugChars THEN s[i] ELSE "-"]

\* `yc-${businessId}`.toLowerCase().replace(/[^a-z0-9-]/g, '-')
orgUrl(businessId) == replaceNonSlug(toLowerCase(<<"y", "c", "-">> \o businessId))

(* ------------------------------- inputs ------------------------------- *)

\* Request bodies are drawn from the sets of a run; <<>> and "" are the empty string,
\* "undefined" is a body without the field, "OWNER" a string outside the role type.
\* The runs about tenants vary who asks and for which business.
TenantRuns ==
  [calls |-> MaxCalls,
   inFlight |-> MaxInFlight,
   emails |-> {<<"a">>, <<"b">>, <<>>},
   names |-> {"Ann", ""},
   businessIds |-> {<<"_">>, <<"-">>, <<>>},
   businessNames |-> {"Biz", ""},
   roles |-> {"undefined", "OWNER"},
   secrets |-> {"s3cret", "wrong"}]

\* The runs about tokens have one more request and vary the role of the claim.
TokenRuns ==
  [calls |-> MaxTokenCalls,
   inFlight |-> MaxInFlight,
   emails |-> {<<"a">>},
   names |-> {"Ann"},
   businessIds |-> {<<"_">>},
   businessNames |-> {"Biz"},
   roles |-> {"undefined", "ADMIN"},
   secrets |-> {"s3cret"}]

\* The runs about users vary the case of the email, the name and the role.
UserRuns ==
  [calls |-> MaxCalls,
   inFlight |-> MaxInFlight,
   emails |-> {<<"a">>, <<"A">>},
   names |-> {"Ann", "Al"},
   businessIds |-> {<<"_">>},
   businessNames |-> {"Biz"},
   roles |-> {"undefined", "ADMIN", "MANAGER"},
   secrets |-> {"s3cret"}]

\* The same requests as TenantRuns, one handler at a time.
SequentialRuns == [TenantRuns EXCEPT !.inFlight = 1]

\* process.env.EXTERNAL_AUTH_SECRET: unset, or set
ExpectedSecrets == {"", "s3cret"}

\* DOCUMENSO_PMS_WEBHOOK_URL and DOCUMENSO_PMS_WEBHOOK_SECRET, each ?? ''
PmsWebhooks ==
  {[url |-> "https://pms", secret |-> "k"], [url |-> "", secret |-> "k"],
   [url |-> "https://pms", secret |-> ""]}

(* -------------------------------- state ------------------------------- *)

VARIABLES
  expectedSecret,   \* process.env.EXTERNAL_AUTH_SECRET
  pmsWebhook,       \* PMS_WEBHOOK_URL and PMS_WEBHOOK_SECRET
  now,              \* Date.now()
  authTokenStore,   \* Map token -> {email, name, businessId, businessName, role, createdAt}
  issued,           \* history: every entry ever set in authTokenStore, by token
  users,            \* prisma.user, id = index
  organisations,    \* prisma.organisation, id = index
  teams,            \* prisma.team in creation order, id = index
  members,          \* prisma.organisationMember rows
  apiTokens,        \* prisma.apiToken rows, id = index
  sessions,         \* sessions issued by onAuthorize: <<call, userId>>
  webhooks,         \* history: the requests sent to the PMS webhook, with their outcome
  calls,            \* the requests: arguments, position, locals, response
  slugged,          \* history: the businessIds an organisation url was computed for
  page,             \* the browser at /auth/external: loader data, component state, location
  settings,         \* history: the requests for a settings page and what the loader did
  trial             \* the comparison of the two ways to provision: request, start, first outcome

env == <<expectedSecret, pmsWebhook, slugged, page, settings, trial>>
store == <<authTokenStore, issued>>
db == <<users, organisations, teams, members, apiTokens>>
vars == <<expectedSecret, pmsWebhook, now, authTokenStore, issued, users, organisations,
          teams, members, apiTokens, sessions, webhooks, calls, slugged, page, settings, trial>>

CallIds == 1..(IF MaxCalls > MaxTokenCalls THEN MaxCalls ELSE MaxTokenCalls)

\* a token never issued: crypto.randomBytes(32) does not produce it
ForgedToken == Cardinality(CallIds) + 1

NoUser == [id |-> 0, name |-> ""]
NoOrg == [id |-> 0, groups |-> {}, team |-> 0]

IdleCall == [op |-> "none", pc |-> "idle", secret |-> "", email |-> <<>>, name |-> "",
             businessId |-> <<>>, businessName |-> "", role |-> "undefined", token |-> 0,
             user |-> NoUser, organisation |-> NoOrg, apiToken |-> 0,
             status |-> 0, message |-> "", respUser |-> NoUser, respOrg |-> 0, respTeam |-> 0]

\* The database outlives the process. It starts empty, or as earlier requests and
\* the rest of the application left it: here after user "a" signed up with a password
\* as "Al" and authorize-business {email: "b", name: "Bob", businessId: "_",
\* businessName: "Biz"} made "b" the owner of a tenant.
\* a url of the application, with the id of the team or organisation in its path
NoUrl == [path |-> "", id |-> 0]

\* no query string
NoQuery == [present |-> FALSE, value |-> 0]

\* the browser before it opens /auth/external; errorMessage "" is null
ClosedPage == [pc |-> "closed", query |-> NoQuery, token |-> 0, isLoading |-> FALSE,
               errorMessage |-> "", view |-> "none", location |-> NoUrl, call |-> 0]

NoDb ==
  [users |-> <<>>, organisations |-> <<>>, teams |-> <<>>, members |-> <<>>, apiTokens |-> <<>>]

\* what a provisioning request leaves behind: the database, the users given a
\* session, the requests sent to the webhook and the response
NoOutcome ==
  [users |-> <<>>, organisations |-> <<>>, teams |-> <<>>, members |-> <<>>, apiTokens |-> <<>>,
   sessionUsers |-> {}, attempts |-> <<>>, status |-> 0, message |-> "",
   respUser |-> NoUser, respOrg |-> 0, respTeam |-> 0]

NoRequest == [email |-> <<>>, name |-> "", businessId |-> <<>>, businessName |-> "",
              role |-> "undefined"]

\* no comparison under way
NoTrial == [phase |-> "idle", request |-> NoRequest, start |-> NoDb, first |-> NoOutcome]

EmptyDb ==
  [users |-> <<>>, organisations |-> <<>>, teams |-> <<>>, members |-> <<>>, apiTokens |-> <<>>]

ProvisionedDb ==
  [users |-> << [email |-> <<"a">>, name |-> "Al", emailVerified |-> TRUE,
                 identityProvider |-> "DOCUMENSO"],
                [email |-> <<"b">>, name |-> "Bob", emailVerified |-> TRUE,
                 identityProvider |-> "EXTERNAL"] >>,
   organisations |-> << [url |-> <<"y", "c", "-", "-">>, name |-> "Biz", ownerUserId |-> 2,
                         groups |-> {"ADMIN", "MANAGER", "MEMBER"}] >>,
   teams |-> << [organisationId |-> 1, name |-> "Biz"] >>,
   members |-> << [userId |-> 2, organisationId |-> 1, group |-> "ADMIN"] >>,
   apiTokens |-> << [name |-> 1, teamId |-> 1, userId |-> 2] >>]

Databases == {EmptyDb, ProvisionedDb}

Init ==
  /\ expectedSecret \in ExpectedSecrets
  /\ pmsWebhook \in PmsWebhooks
  /\ now = 0
  /\ authTokenStore = <<>>
  /\ issued = <<>>
  /\ \E d \in Databases :
       /\ users = d.users
       /\ organisations = d.organisations
       /\ teams = d.teams
       /\ members = d.members
       /\ apiTokens = d.apiTokens
  /\ sessions = {}
  /\ webhooks = <<>>
  /\ calls = [c \in CallIds |-> IdleCall]
  /\ slugged = <<>>
  /\ page = ClosedPage
  /\ settings = {}
  /\ trial = NoTrial

(* ------------------------------ requests ------------------------------ *)

InFlight == {c \in CallIds : calls[c].pc \notin {"idle", "done"}}

\* requests are numbered in the order they arrive
Arrives(c) ==
  /\ calls[c].pc = "idle"
  /\ \A d \in CallIds : d < c => calls[d].pc # "idle"

\* c.json(...): the response; the handler's locals are gone. The request is kept
\* when it succeeded; of one refused or failed, the operation, the secret and the token.
Respond(r, status, message) ==
  IF status = 200
  THEN [r EXCEPT !.pc = "done", !.status = status, !.message = message,
                 !.user = NoUser, !.organisation = NoOrg, !.apiToken = 0]
  ELSE [IdleCall EXCEPT !.op = r.op, !.secret = r.secret, !.token = r.token,
                        !.pc = "done", !.status = status, !.message = message]

\* variant: an unset secret lets every request through
SecretGateOpen(secret) ==
  IF expectedSecret = "" THEN "ok"
  ELSE IF secret # expectedSecret THEN "invalid"
  ELSE "ok"

\* variant: the comparison is made before the test for an unset secret
SecretGateMismatchFirst(secret) ==
  IF secret # expectedSecret THEN "invalid"
  ELSE IF expectedSecret = "" THEN "unconfigured"
  ELSE "ok"

\* the shared-secret gate; "ok" lets the handler go on
SecretGate(secret) ==
  IF expectedSecret = "" THEN "unconfigured"
  ELSE IF secret # expectedSecret THEN "invalid"
  ELSE "ok"

\* variant: every role of the table is looked up as MEMBER
organisationRoleMember(role) ==
  IF role \in {"ADMIN", "MANAGER", "MEMBER"} THEN "MEMBER" ELSE "undefined"

\* the role table of authorize-business and exchange-token
organisationRole(role) ==
  IF role \in {"ADMIN", "MANAGER", "MEMBER"} THEN role ELSE "undefined"

\* the destructuring default: role = 'MEMBER'
DefaultRole(role) == IF role = "undefined" THEN "MEMBER" ELSE role

(* ------------------------ token store and sweep ------------------------ *)

\* variant: the sweep removes nothing
SweepRemovesNone(data) == FALSE

\* variant: an entry exactly as old as the window is removed too
SweepRemovesAtExpiry(data) == now - data.createdAt >= TOKEN_EXPIRY_MS

\* the sweep's test of an entry: now - data.createdAt > TOKEN_EXPIRY_MS
SweepRemoves(data) == now - data.createdAt > TOKEN_EXPIRY_MS

\* the setInterval callback
Sweep ==
  /\ authTokenStore' = [t \in {u \in DOMAIN authTokenStore : ~SweepRemoves(authTokenStore[u])}
                          |-> authTokenStore[t]]
  /\ UNCHANGED <<env, now, issued, db, sessions, webhooks, calls>>

\* time passes; the clock is read only to stamp token entries and to age them,
\* so it is advanced from the first issue on
Tick ==
  /\ issued # <<>>
  /\ now < MaxTicks * ClockStep
  /\ now' = now + ClockStep
  /\ UNCHANGED <<env, store, db, sessions, webhooks, calls>>

\* variant: set writes the entry under every key
StoreSetAll(token, entry) ==
  /\ authTokenStore' = [t \in DOMAIN authTokenStore \cup {token} |-> entry]
  /\ issued' = Append(issued, entry)

\* variant: set leaves the new entry alone in the map
StoreSetOnly(token, entry) ==
  /\ authTokenStore' = [t \in {token} |-> entry]
  /\ issued' = Append(issued, entry)

\* authTokenStore.set(token, {...})
StoreSet(token, entry) ==
  /\ authTokenStore' = [t \in DOMAIN authTokenStore \cup {token} |->
                          IF t = token THEN entry ELSE authTokenStore[t]]
  /\ issued' = Append(issued, entry)

\* POST /generate-token: one synchronous segment
GenerateToken(c, email, name, businessId, businessName, roleArg, secret) ==
  /\ Arrives(c)
  /\ LET r == [IdleCall EXCEPT !.op = "generate-token", !.secret = secret, !.email = email,
                 !.name = name, !.businessId = businessId, !.businessName = businessName,
                 !.role = roleArg]
         role == DefaultRole(roleArg)
         gate == SecretGate(secret)
         token == Len(issued) + 1
     IN IF gate = "unconfigured"
        THEN /\ calls' = [calls EXCEPT ![c] = Respond(r, 500, "External authentication is not configured")]
             /\ UNCHANGED store
        ELSE IF gate = "invalid"
        THEN /\ calls' = [calls EXCEPT ![c] = Respond(r, 401, "Invalid external secret")]
             /\ UNCHANGED store
        ELSE IF email = <<>> \/ name = "" \/ businessId = <<>> \/ businessName = ""
        THEN /\ calls' = [calls EXCEPT ![c] = Respond(r, 400, "email, name, businessId, and businessName are required")]
             /\ UNCHANGED store
        ELSE /\ StoreSet(token, [email |-> email, name |-> name, businessId |-> businessId,
                                 businessName |-> businessName, role |-> role, createdAt |-> now])
             /\ calls' = [calls EXCEPT ![c] = Respond([r EXCEPT !.token = token], 200, "")]
  /\ UNCHANGED <<env, now, db, sessions, webhooks>>

\* authTokenStore.get(token) is not undefined
StoreHas(token) == token \in DOMAIN authTokenStore

\* variant: delete leaves the entry in the map
StoreKeep(token) == UNCHANGED authTokenStore

\* variant: delete empties the map
StoreClear(token) == authTokenStore' = [t \in {} |-> 0]

\* variant: delete removes the entry only when it is too old to be exchanged
StoreDeleteStale(token) ==
  authTokenStore' =
    [t \in {u \in DOMAIN authTokenStore :
              u # token \/ now - authTokenStore[u].createdAt <= TOKEN_EXPIRY_MS}
       |-> authTokenStore[t]]

\* authTokenStore.delete(token)
StoreDelete(token) ==
  authTokenStore' = [t \in DOMAIN authTokenStore \ {token} |-> authTokenStore[t]]

\* variant: no entry is too old
ExchangeRejectsNone(tokenData) == FALSE

\* variant: an entry exactly as old as the window is rejected too
ExchangeRejectsAtExpiry(tokenData) == now - tokenData.createdAt >= TOKEN_EXPIRY_MS

\* exchange-token's test of the entry it got: Date.now() - tokenData.createdAt > TOKEN_EXPIRY_MS
ExchangeRejects(tokenData) == now - tokenData.createdAt > TOKEN_EXPIRY_MS

\* POST /exchange-token, up to its first database call
ExchangeTokenHandler(c, token) ==
  /\ Arrives(c)
  /\ LET r == [IdleCall EXCEPT !.op = "exchange-token", !.token = token]
     IN IF token = 0
        THEN /\ calls' = [calls EXCEPT ![c] = Respond(r, 400, "Token is required")]
             /\ UNCHANGED authTokenStore
        ELSE /\ StoreDelete(token)
             /\ IF ~StoreHas(token)
                THEN calls' = [calls EXCEPT ![c] = Respond(r, 401, "Invalid or expired token")]
                ELSE LET tokenData == authTokenStore[token]
                     IN IF ExchangeRejects(tokenData)
                        THEN calls' = [calls EXCEPT ![c] = Respond(r, 401, "Token has expired")]
                        ELSE calls' = [calls EXCEPT ![c] =
                               [r EXCEPT !.pc = "findUser", !.email = tokenData.email,
                                  !.name = tokenData.name, !.businessId = tokenData.businessId,
                                  !.businessName = tokenData.businessName, !.role = tokenData.role]]

\* the request of a caller other than the page
ExchangeToken(c, token) ==
  /\ ExchangeTokenHandler(c, token)
  /\ UNCHANGED <<env, now, issued, db, sessions, webhooks>>

(* --------------------- the other handlers' entries --------------------- *)

\* POST /authorize, up to its first database call
Authorize(c, email, name, secret) ==
  /\ Arrives(c)
  /\ LET r == [IdleCall EXCEPT !.op = "authorize", !.secret = secret, !.email = email,
                 !.name = name]
         gate == SecretGate(secret)
     IN calls' = [calls EXCEPT ![c] =
          IF gate = "unconfigured"
          THEN Respond(r, 500, "External authentication is not configured")
          ELSE IF gate = "invalid" THEN Respond(r, 401, "Invalid external secret")
          ELSE IF email = <<>> \/ name = "" THEN Respond(r, 400, "Email and name are required")
          ELSE [r EXCEPT !.pc = "findUser"]]
  /\ UNCHANGED <<env, now, store, db, sessions, webhooks>>

\* POST /authorize-business, up to its first database call
AuthorizeBusiness(c, email, name, businessId, businessName, roleArg, secret) ==
  /\ Arrives(c)
  /\ LET r == [IdleCall EXCEPT !.op = "authorize-business", !.secret = secret,
                 !.email = email, !.name = name, !.businessId = businessId,
                 !.businessName = businessName, !.role = DefaultRole(roleArg)]
         gate == SecretGate(secret)
     IN calls' = [calls EXCEPT ![c] =
          IF gate = "unconfigured"
          THEN Respond(r, 500, "External authentication is not configured")
          ELSE IF gate = "invalid" THEN Respond(r, 401, "Invalid external secret")
          ELSE IF email = <<>> \/ name = "" \/ businessId = <<>> \/ businessName = ""
          THEN Respond(r, 400, "email, name, businessId, and businessName are required")
          ELSE [r EXCEPT !.pc = "findUser"]]
  /\ UNCHANGED <<env, now, store, db, sessions, webhooks>>

\* POST /verify, up to its database call
Verify(c, email, secret) ==
  /\ Arrives(c)
  /\ LET r == [IdleCall EXCEPT !.op = "verify", !.secret = secret, !.email = email]
     IN calls' = [calls EXCEPT ![c] =
          IF expectedSecret = "" \/ secret # expectedSecret
          THEN Respond(r, 401, "Unauthorized")
          ELSE [r EXCEPT !.pc = "verifyUser"]]
  /\ UNCHANGED <<env, now, store, db, sessions, webhooks>>

\* POST /remove-member, up to its first database call
RemoveMember(c, email, businessId, secret) ==
  /\ Arrives(c)
  /\ LET r == [IdleCall EXCEPT !.op = "remove-member", !.secret = secret, !.email = email,
                 !.businessId = businessId]
     IN calls' = [calls EXCEPT ![c] =
          IF expectedSecret = "" \/ secret # expectedSecret
          THEN Respond(r, 401, "Unauthorized")
          ELSE [r EXCEPT !.pc = "removeFindUser"]]
  /\ UNCHANGED <<env, now, store, db, sessions, webhooks>>

(* --------------------------- the database ----------------------------- *)

\* variant: the lookup answers with the first user, whatever the email
UserByEmailAny(email) == IF users # <<>> THEN 1 ELSE 0

\* prisma.user.findUnique({ where: { email } }): the id, 0 for null
UserByEmail(email) ==
  IF \E i \in 1..Len(users) : users[i].email = email
  THEN CHOOSE i \in 1..Len(users) : users[i].email = email
  ELSE 0

\* prisma.organisation.findFirst({ where: { url } }): the id, 0 for null
OrgByUrl(url) ==
  IF \E i \in 1..Len(organisations) : organisations[i].url = url
  THEN CHOOSE i \in 1..Len(organisations) :
         /\ organisations[i].url = url
         /\ \A j \in 1..Len(organisations) : organisations[j].url = url => i <= j
  ELSE 0

\* teams: { take: 1, orderBy: { createdAt: 'asc' } }: the id of teams[0], 0 for none
OldestTeam(org) ==
  IF \E i \in 1..Len(teams) : teams[i].organisationId = org
  THEN CHOOSE i \in 1..Len(teams) :
         /\ teams[i].organisationId = org
         /\ \A j \in 1..Len(teams) : teams[j].organisationId = org => i <= j
  ELSE 0

\* what a handler holds of an organisation: include { groups, teams (take 1) }
OrgView(org) == [id |-> org, groups |-> organisations[org].groups, team |-> OldestTeam(org)]

\* prisma.organisationMember.findFirst({ where: { userId, organisationId } }) is not null
HasMember(user, org) ==
  \E i \in 1..Len(members) : members[i].userId = user /\ members[i].organisationId = org

\* prisma.apiToken.findFirst({ where: { teamId, name } }) is not null
HasApiToken(team, name) ==
  \E i \in 1..Len(apiTokens) : apiTokens[i].teamId = team /\ apiTokens[i].name = name

\* createOrganisation: the organisation with its default role groups, owned by the user,
\* who becomes its ADMIN member; the url is unique
CreatedOrganisation(name, url, user) ==
  [url |-> url, name |-> name, ownerUserId |-> user, groups |-> {"ADMIN", "MANAGER", "MEMBER"}]

\* a row of organisationMember with its one organisationGroupMembers row
MemberRow(user, org, group) == [userId |-> user, organisationId |-> org, group |-> group]

(* ------------------------- steps of a handler -------------------------- *)

\* an exception: authorize has no try/catch, the others answer 500 with error.message
Throw(r, message) ==
  IF r.op = "authorize" THEN Respond(r, 500, "Internal Server Error")
  ELSE Respond(r, 500, message)

\* the success response of authorize-business and exchange-token
RespondOk(r) ==
  [Respond(r, 200, "") EXCEPT !.respUser = r.user, !.respOrg = r.organisation.id,
                              !.respTeam = r.organisation.team]

\* variant: a call with a token stops after its user, as authorize does
AfterUserOfBusiness(r) == IF r.op # "authorize-business" THEN "onAuthorize" ELSE "findOrganisation"

\* authorize goes on to the session, the other two to the organisation
AfterUser(r) == IF r.op = "authorize" THEN "onAuthorize" ELSE "findOrganisation"

\* variant: the name is written whenever the user exists
NameGiven(name, stored) == TRUE

\* else if (name && name !== user.name)
NameDiffers(name, stored) == name # "" /\ name # stored

\* await prisma.user.findUnique({ where: { email: email.toLowerCase() } })
FindUser(c) ==
  /\ calls[c].pc = "findUser"
  /\ LET r == calls[c]
         u == UserByEmail(toLowerCase(r.email))
     IN calls' = [calls EXCEPT ![c] =
          IF u = 0 THEN [r EXCEPT !.pc = "createUser"]
          ELSE IF NameDiffers(r.name, users[u].name)
          THEN [r EXCEPT !.pc = "updateUser", !.user = [id |-> u, name |-> users[u].name]]
          ELSE [r EXCEPT !.pc = AfterUser(r), !.user = [id |-> u, name |-> users[u].name]]]
  /\ UNCHANGED <<env, now, store, db, sessions, webhooks>>

\* variant: the row as the schema defaults would make it
NewUserByDefault(email, name) ==
  [email |-> email, name |-> name, emailVerified |-> FALSE, identityProvider |-> "DOCUMENSO"]

\* data: { email, name, emailVerified: new Date(), identityProvider: IdentityProvider.EXTERNAL }
NewUser(email, name) ==
  [email |-> email, name |-> name, emailVerified |-> TRUE, identityProvider |-> "EXTERNAL"]

\* await prisma.user.create(...)
CreateUser(c) ==
  /\ calls[c].pc = "createUser"
  /\ LET r == calls[c]
         email == toLowerCase(r.email)
     IN IF UserByEmail(email) # 0
        THEN /\ calls' = [calls EXCEPT ![c] = Throw(r, "Unique constraint failed on the fields: email")]
             /\ UNCHANGED users
        ELSE /\ users' = Append(users, NewUser(email, r.name))
             /\ calls' = [calls EXCEPT ![c] =
                  [r EXCEPT !.pc = AfterUser(r), !.user = [id |-> Len(users) + 1, name |-> r.name]]]
  /\ UNCHANGED <<env, now, store, organisations, teams, members, apiTokens, sessions, webhooks>>

\* variant: the update marks the user as one of the partner's too
UpdateUserFederates(c) ==
  /\ calls[c].pc = "updateUser"
  /\ LET r == calls[c]
     IN /\ users' = [users EXCEPT ![r.user.id].name = r.name,
                                  ![r.user.id].identityProvider = "EXTERNAL"]
        /\ calls' = [calls EXCEPT ![c] = [r EXCEPT !.pc = AfterUser(r), !.user.name = r.name]]
  /\ UNCHANGED <<env, now, store, organisations, teams, members, apiTokens, sessions, webhooks>>

\* await prisma.user.update({ where: { id: user.id }, data: { name } })
UpdateUser(c) ==
  /\ calls[c].pc = "updateUser"
  /\ LET r == calls[c]
     IN /\ users' = [users EXCEPT ![r.user.id].name = r.name]
        /\ calls' = [calls EXCEPT ![c] = [r EXCEPT !.pc = AfterUser(r), !.user.name = r.name]]
  /\ UNCHANGED <<env, now, store, organisations, teams, members, apiTokens, sessions, webhooks>>

\* variant: an organisation found without a team is given one
FindOrganisationOrTeam(c) ==
  /\ calls[c].pc = "findOrganisation"
  /\ LET r == calls[c]
         o == OrgByUrl(orgUrl(r.businessId))
     IN calls' = [calls EXCEPT ![c] =
          IF o = 0 THEN [r EXCEPT !.pc = "createOrganisation"]
          ELSE IF OldestTeam(o) = 0 THEN [r EXCEPT !.pc = "createTeam", !.organisation = OrgView(o)]
          ELSE [r EXCEPT !.pc = "findMember", !.organisation = OrgView(o)]]
  /\ UNCHANGED <<env, now, store, db, sessions, webhooks>>

\* await prisma.organisation.findFirst({ where: { url: orgUrl }, include: ... })
FindOrganisation(c) ==
  /\ calls[c].pc = "findOrganisation"
  /\ LET r == calls[c]
         o == OrgByUrl(orgUrl(r.businessId))
     IN calls' = [calls EXCEPT ![c] =
          IF o = 0 THEN [r EXCEPT !.pc = "createOrganisation"]
          ELSE [r EXCEPT !.pc = "findMember", !.organisation = OrgView(o)]]
  /\ UNCHANGED <<env, now, store, db, sessions, webhooks>>

\* await createOrganisation({ name: businessName, url: orgUrl, userId: user.id, ... })
CreateOrganisation(c) ==
  /\ calls[c].pc = "createOrganisation"
  /\ LET r == calls[c]
         url == orgUrl(r.businessId)
         o == Len(organisations) + 1
     IN IF OrgByUrl(url) # 0
        THEN /\ calls' = [calls EXCEPT ![c] = Throw(r, "Unique constraint failed on the fields: url")]
             /\ UNCHANGED <<organisations, members>>
        ELSE /\ organisations' = Append(organisations, CreatedOrganisation(r.businessName, url, r.user.id))
             /\ members' = Append(members, MemberRow(r.user.id, o, "ADMIN"))
             /\ calls' = [calls EXCEPT ![c] =
                  [r EXCEPT !.pc = "rereadOrganisation", !.organisation.id = o]]
  /\ UNCHANGED <<env, now, store, users, teams, apiTokens, sessions, webhooks>>

\* await prisma.organisation.findFirst({ where: { id: createdOrg.id }, include: ... })
RereadOrganisation(c) ==
  /\ calls[c].pc = "rereadOrganisation"
  /\ LET r == calls[c]
     IN calls' = [calls EXCEPT ![c] =
          IF r.organisation.id \in 1..Len(organisations)
          THEN [r EXCEPT !.pc = "createTeam", !.organisation = OrgView(r.organisation.id)]
          ELSE Throw(r, "Failed to create organisation")]
  /\ UNCHANGED <<env, now, store, db, sessions, webhooks>>

\* await createTeam({ teamName: businessName, organisationId: organisation.id, ... })
CreateTeam(c) ==
  /\ calls[c].pc = "createTeam"
  /\ LET r == calls[c]
     IN /\ teams' = Append(teams, [organisationId |-> r.organisation.id, name |-> r.businessName])
        /\ calls' = [calls EXCEPT ![c] = [r EXCEPT !.pc = "reloadOrganisation"]]
  /\ UNCHANGED <<env, now, store, users, organisations, members, apiTokens, sessions, webhooks>>

\* await prisma.organisation.findFirst({ where: { id: organisation.id }, include: ... })
ReloadOrganisation(c) ==
  /\ calls[c].pc = "reloadOrganisation"
  /\ LET r == calls[c]
     IN calls' = [calls EXCEPT ![c] =
          [r EXCEPT !.pc = "onAuthorize", !.organisation = OrgView(r.organisation.id)]]
  /\ UNCHANGED <<env, now, store, db, sessions, webhooks>>

\* variant: the membership is created whether a group matches or not
FindMemberAnyGroup(c) ==
  /\ calls[c].pc = "findMember"
  /\ LET r == calls[c]
         existingMember == HasMember(r.user.id, r.organisation.id)
     IN calls' = [calls EXCEPT ![c] =
          IF ~existingMember THEN [r EXCEPT !.pc = "createMember"]
          ELSE [r EXCEPT !.pc = "onAuthorize"]]
  /\ UNCHANGED <<env, now, store, db, sessions, webhooks>>

\* variant: a membership that exists is moved to the group of the requested role
FindMemberSyncRole(c) ==
  /\ calls[c].pc = "findMember"
  /\ LET r == calls[c]
         existingMember == HasMember(r.user.id, r.organisation.id)
         targetGroup == organisationRole(r.role) \in r.organisation.groups
         mine(m) == m.userId = r.user.id /\ m.organisationId = r.organisation.id
     IN /\ calls' = [calls EXCEPT ![c] =
             IF ~existingMember /\ targetGroup THEN [r EXCEPT !.pc = "createMember"]
             ELSE [r EXCEPT !.pc = "onAuthorize"]]
        /\ members' = IF existingMember /\ targetGroup
                      THEN [i \in 1..Len(members) |->
                              IF mine(members[i])
                              THEN [members[i] EXCEPT !.group = organisationRole(r.role)]
                              ELSE members[i]]
                      ELSE members
  /\ UNCHANGED <<env, now, store, users, organisations, teams, apiTokens, sessions, webhooks>>

\* await prisma.organisationMember.findFirst(...), then the lookup of targetGroup
FindMember(c) ==
  /\ calls[c].pc = "findMember"
  /\ LET r == calls[c]
         existingMember == HasMember(r.user.id, r.organisation.id)
         targetGroup == organisationRole(r.role) \in r.organisation.groups
     IN calls' = [calls EXCEPT ![c] =
          IF ~existingMember /\ targetGroup THEN [r EXCEPT !.pc = "createMember"]
          ELSE [r EXCEPT !.pc = "onAuthorize"]]
  /\ UNCHANGED <<env, now, store, db, sessions, webhooks>>

\* await prisma.organisationMember.create(...): (userId, organisationId) is unique
CreateMember(c) ==
  /\ calls[c].pc = "createMember"
  /\ LET r == calls[c]
     IN IF HasMember(r.user.id, r.organisation.id)
        THEN /\ calls' = [calls EXCEPT ![c] =
                  Throw(r, "Unique constraint failed on the fields: userId,organisationId")]
             /\ UNCHANGED members
        ELSE /\ members' = Append(members,
                  MemberRow(r.user.id, r.organisation.id, organisationRole(r.role)))
             /\ calls' = [calls EXCEPT ![c] = [r EXCEPT !.pc = "onAuthorize"]]
  /\ UNCHANGED <<env, now, store, users, organisations, teams, apiTokens, sessions, webhooks>>

\* await onAuthorize({ userId: user.id }, c), then the choice of team
OnAuthorize(c) ==
  /\ calls[c].pc = "onAuthorize"
  /\ LET r == calls[c]
     IN /\ sessions' = sessions \cup {<<c, r.user.id>>}
        /\ calls' = [calls EXCEPT ![c] =
             IF r.op = "authorize" THEN [Respond(r, 200, "") EXCEPT !.respUser = r.user]
             ELSE IF r.organisation.team # 0 THEN [r EXCEPT !.pc = "findApiToken"]
             ELSE RespondOk(r)]
  /\ UNCHANGED <<env, now, store, db, webhooks>>

\* variant: the url alone is tested
PmsUrlConfigured == pmsWebhook.url # ""

\* sendApiTokenToPms returns at once when the webhook is not configured
PmsConfigured == pmsWebhook.url # "" /\ pmsWebhook.secret # ""

\* variant: a credential that exists is sent to the webhook again
FindApiTokenResend(c) ==
  /\ calls[c].pc = "findApiToken"
  /\ LET r == calls[c]
         found == {i \in 1..Len(apiTokens) : /\ apiTokens[i].teamId = r.organisation.team
                                            /\ apiTokens[i].name = r.organisation.id}
     IN calls' = [calls EXCEPT ![c] =
          IF found # {} /\ PmsConfigured
          THEN [r EXCEPT !.pc = "fetchWebhook", !.apiToken = CHOOSE i \in found : TRUE]
          ELSE IF found # {} THEN RespondOk(r)
          ELSE [r EXCEPT !.pc = "createApiToken"]]
  /\ UNCHANGED <<env, now, store, db, sessions, webhooks>>

\* createExternalTeamApiToken: await prisma.apiToken.findFirst({ where: { teamId, name } })
FindApiToken(c) ==
  /\ calls[c].pc = "findApiToken"
  /\ LET r == calls[c]
     IN calls' = [calls EXCEPT ![c] =
          IF HasApiToken(r.organisation.team, r.organisation.id) THEN RespondOk(r)
          ELSE [r EXCEPT !.pc = "createApiToken"]]
  /\ UNCHANGED <<env, now, store, db, sessions, webhooks>>

\* createExternalTeamApiToken: await prisma.apiToken.create(...); then sendApiTokenToPms
\* up to its fetch
CreateApiToken(c) ==
  /\ calls[c].pc = "createApiToken"
  /\ LET r == calls[c]
     IN /\ apiTokens' = Append(apiTokens, [name |-> r.organisation.id,
                                           teamId |-> r.organisation.team, userId |-> r.user.id])
        /\ calls' = [calls EXCEPT ![c] =
             IF PmsConfigured THEN [r EXCEPT !.pc = "fetchWebhook", !.apiToken = Len(apiTokens) + 1]
             ELSE RespondOk(r)]
  /\ UNCHANGED <<env, now, store, users, organisations, teams, members, sessions, webhooks>>

\* the outcomes of await fetch(webhookUrl, ...): 2xx, another status, a network error
FetchOutcomes == {"ok", "not-ok", "error"}

\* variant: a network error of the webhook is thrown to the handler
FetchWebhookThrows(c, outcome) ==
  /\ calls[c].pc = "fetchWebhook"
  /\ LET r == calls[c]
     IN /\ webhooks' = Append(webhooks, [businessId |-> r.businessId, apiToken |-> r.apiToken,
                                         secret |-> pmsWebhook.secret, outcome |-> outcome])
        /\ calls' = [calls EXCEPT ![c] =
             IF outcome = "error" THEN Throw(r, "fetch failed") ELSE RespondOk(r)]
  /\ UNCHANGED <<env, now, store, db, sessions>>

\* sendApiTokenToPms: await fetch(...); every outcome is logged and swallowed
FetchWebhook(c, outcome) ==
  /\ calls[c].pc = "fetchWebhook"
  /\ LET r == calls[c]
     IN /\ webhooks' = Append(webhooks, [businessId |-> r.businessId, apiToken |-> r.apiToken,
                                         secret |-> pmsWebhook.secret, outcome |-> outcome])
        /\ calls' = [calls EXCEPT ![c] = RespondOk(r)]
  /\ UNCHANGED <<env, now, store, db, sessions>>

\* verify: await prisma.user.findUnique(...) with the user's organisations
VerifyUser(c) ==
  /\ calls[c].pc = "verifyUser"
  /\ LET r == calls[c]
         u == UserByEmail(toLowerCase(r.email))
     IN calls' = [calls EXCEPT ![c] =
          IF u = 0 THEN Respond(r, 200, "")
          ELSE [Respond(r, 200, "") EXCEPT !.respUser = [id |-> u, name |-> users[u].name]]]
  /\ UNCHANGED <<env, now, store, db, sessions, webhooks>>

\* variant: remove-member answers 404 when it finds no user
RemoveFindUserStrict(c) ==
  /\ calls[c].pc = "removeFindUser"
  /\ LET r == calls[c]
         u == UserByEmail(toLowerCase(r.email))
     IN calls' = [calls EXCEPT ![c] =
          IF u = 0 THEN Respond(r, 404, "User not found")
          ELSE [r EXCEPT !.pc = "removeFindOrganisation", !.user = [id |-> u, name |-> users[u].name]]]
  /\ UNCHANGED <<env, now, store, db, sessions, webhooks>>

\* remove-member: await prisma.user.findUnique(...)
RemoveFindUser(c) ==
  /\ calls[c].pc = "removeFindUser"
  /\ LET r == calls[c]
         u == UserByEmail(toLowerCase(r.email))
     IN calls' = [calls EXCEPT ![c] =
          IF u = 0 THEN Respond(r, 200, "User not found")
          ELSE [r EXCEPT !.pc = "removeFindOrganisation", !.user = [id |-> u, name |-> users[u].name]]]
  /\ UNCHANGED <<env, now, store, db, sessions, webhooks>>

\* remove-member: await prisma.organisation.findFirst({ where: { url: orgUrl } })
RemoveFindOrganisation(c) ==
  /\ calls[c].pc = "removeFindOrganisation"
  /\ LET r == calls[c]
         o == OrgByUrl(orgUrl(r.businessId))
     IN calls' = [calls EXCEPT ![c] =
          IF o = 0 THEN Respond(r, 200, "Organisation not found")
          ELSE [r EXCEPT !.pc = "deleteMembers", !.organisation.id = o]]
  /\ UNCHANGED <<env, now, store, db, sessions, webhooks>>

\* remove-member: await prisma.organisationMember.deleteMany({ where: { userId, organisationId } })
DeleteMembers(c) ==
  /\ calls[c].pc = "deleteMembers"
  /\ LET r == calls[c]
         kept(m) == ~(m.userId = r.user.id /\ m.organisationId = r.organisation.id)
     IN /\ members' = SelectSeq(members, kept)
        /\ calls' = [calls EXCEPT ![c] = Respond(r, 200, "Member removed from organisation")]
  /\ UNCHANGED <<env, now, store, users, organisations, teams, apiTokens, sessions, webhooks>>

(* --------------------------- specification ----------------------------- *)

\* the tokens a caller may present: none, one that was issued, one that never was
PresentedTokens == {0, ForgedToken} \cup (1..Len(issued))

\* the server takes a request while fewer than D.inFlight handlers are in flight
Accepts(D) == Cardinality(InFlight) < D.inFlight

PostGenerateToken(c, D) ==
  /\ Accepts(D)
  /\ \E email \in D.emails, name \in D.names, businessId \in D.businessIds,
        businessName \in D.businessNames, role \in D.roles, secret \in D.secrets :
       GenerateToken(c, email, name, businessId, businessName, role, secret)

PostAuthorizeBusiness(c, D) ==
  /\ Accepts(D)
  /\ \E email \in D.emails, name \in D.names, businessId \in D.businessIds,
        businessName \in D.businessNames, role \in D.roles, secret \in D.secrets :
       AuthorizeBusiness(c, email, name, businessId, businessName, role, secret)

PostAuthorize(c, D) ==
  /\ Accepts(D)
  /\ \E email \in D.emails, name \in D.names, secret \in D.secrets :
       Authorize(c, email, name, secret)

PostVerify(c, D) ==
  /\ Accepts(D)
  /\ \E email \in D.emails, secret \in D.secrets : Verify(c, email, secret)

PostRemoveMember(c, D) ==
  /\ Accepts(D)
  /\ \E email \in D.emails, businessId \in D.businessIds, secret \in D.secrets :
       RemoveMember(c, email, businessId, secret)

PostExchangeToken(c, D) ==
  /\ Accepts(D)
  /\ \E token \in PresentedTokens : ExchangeToken(c, token)

\* the runs with request bodies drawn from D
NextOf(D) ==
  \/ Tick
  \/ Sweep
  \/ \E c \in 1..D.calls :
       \/ PostGenerateToken(c, D)
       \/ PostExchangeToken(c, D)
       \/ PostAuthorize(c, D)
       \/ PostAuthorizeBusiness(c, D)
       \/ PostVerify(c, D)
       \/ PostRemoveMember(c, D)
       \/ FindUser(c) \/ CreateUser(c) \/ UpdateUser(c)
       \/ FindOrganisation(c) \/ CreateOrganisation(c) \/ RereadOrganisation(c)
       \/ CreateTeam(c) \/ ReloadOrganisation(c)
       \/ FindMember(c) \/ CreateMember(c)
       \/ OnAuthorize(c)
       \/ FindApiToken(c) \/ CreateApiToken(c)
       \/ \E outcome \in FetchOutcomes : FetchWebhook(c, outcome)
       \/ VerifyUser(c)
       \/ RemoveFindUser(c) \/ RemoveFindOrganisation(c) \/ DeleteMembers(c)

Next == NextOf(TenantRuns)

Spec == Init /\ [][Next]_vars

NextToken == NextOf(TokenRuns)

SpecToken == Init /\ [][NextToken]_vars

NextSequential == NextOf(SequentialRuns)

SpecSequential == Init /\ [][NextSequential]_vars

NextUsers == NextOf(UserRuns)

SpecUsers == Init /\ [][NextUsers]_vars

\* The token runs with two calls, in which the clock goes on for as long as the
\* store holds an entry that is not yet too old, and the timer of the sweep and
\* the clock are not held up for ever.
LiveRuns == [TokenRuns EXCEPT !.calls = MaxCalls]

TickWhileFresh ==
  /\ \E t \in DOMAIN authTokenStore : now - authTokenStore[t].createdAt <= TOKEN_EXPIRY_MS
  /\ now' = now + ClockStep
  /\ UNCHANGED <<env, store, db, sessions, webhooks, calls>>

NextLive == NextOf(LiveRuns) \/ TickWhileFresh

SpecLive == Init /\ [][NextLive]_vars /\ WF_vars(Sweep) /\ WF_vars(TickWhileFresh)

\* The steps of a handler that await the database or the session.
Awaited(c) ==
  \/ FindUser(c) \/ CreateUser(c) \/ UpdateUser(c)
  \/ FindOrganisation(c) \/ CreateOrganisation(c) \/ RereadOrganisation(c)
  \/ CreateTeam(c) \/ ReloadOrganisation(c)
  \/ FindMember(c) \/ CreateMember(c)
  \/ OnAuthorize(c)
  \/ FindApiToken(c) \/ CreateApiToken(c)
  \/ VerifyUser(c)
  \/ RemoveFindUser(c) \/ RemoveFindOrganisation(c) \/ DeleteMembers(c)

\* The token runs with two calls, in which the database and the session always
\* answer; the webhook endpoint is another party's and need not.
NextServed == NextOf(LiveRuns)

SpecServed == Init /\ [][NextServed]_vars /\ \A c \in 1..MaxCalls : WF_vars(Awaited(c))

\* The organisation url on its own: it is computed for two businessIds.
ComputeOrgUrl(businessId) ==
  /\ Len(slugged) < 2
  /\ slugged' = Append(slugged, [businessId |-> businessId, url |-> orgUrl(businessId)])
  /\ UNCHANGED <<expectedSecret, pmsWebhook, now, store, db, sessions, webhooks, calls, page, settings, trial>>

InitSlug ==
  /\ Init
  /\ expectedSecret # ""
  /\ pmsWebhook.url # ""
  /\ pmsWebhook.secret # ""
  /\ users = <<>>

NextSlug == \E businessId \in Strings(MaxLen) : ComputeOrgUrl(businessId)

SpecSlug == InitSlug /\ [][NextSlug]_vars

(* ---------------------- the page /auth/external ----------------------- *)

\* the query of the redirectUrl of generate-token: /auth/external?token=${token}
GeneratedQuery(r) == [present |-> TRUE, value |-> r.token]

\* The request url's token parameter: absent, empty, a token that was issued or one
\* that never was. value 0 is the empty string.
PageQueries ==
  {NoQuery} \cup {[present |-> TRUE, value |-> t] : t \in PresentedTokens}

\* variant: only a url without the parameter is sent to /signin
NoTokenParam(query) == ~query.present

\* !token, of url.searchParams.get('token'): null or ''
NoToken(query) == ~query.present \/ query.value = 0

SignInUrl == [path |-> "/signin", id |-> 0]

Undefined == [path |-> "undefined", id |-> 0]

\* redirectUrl and documentsUrl of the response, through parseExchangeTokenResponse:
\* a field that is not a string is undefined
redirectUrl(r) ==
  IF r.respTeam # 0 THEN [path |-> "/t", id |-> r.respTeam]
  ELSE [path |-> "/o", id |-> r.respOrg]

documentsUrl(r) ==
  IF r.respTeam # 0 THEN [path |-> "/t/documents", id |-> r.respTeam] ELSE Undefined

\* data.documentsUrl ?? data.redirectUrl ?? '/'
targetUrl(r) ==
  IF documentsUrl(r) # Undefined THEN documentsUrl(r)
  ELSE IF redirectUrl(r) # Undefined THEN redirectUrl(r)
  ELSE [path |-> "/", id |-> 0]

\* what the component returns: the spinner while isLoading, else 'Unable to sign you in'
View(p) == IF p.isLoading THEN "loading" ELSE "failure"

served == <<expectedSecret, pmsWebhook, slugged, settings, trial, now, store, db, sessions,
           webhooks>>

\* the loader: redirect('/signin') without a token, else the token as loader data
Loader(query) ==
  /\ page.pc = "closed"
  /\ page' = IF NoToken(query)
             THEN [page EXCEPT !.pc = "signin", !.query = query, !.location = SignInUrl]
             ELSE [page EXCEPT !.pc = "loaded", !.query = query, !.token = query.value]
  /\ UNCHANGED <<served, calls>>

\* the first render, and the effect up to its fetch: useState(true), useState(null),
\* setIsLoading(true), setErrorMessage(null), the request is sent
Mount ==
  /\ page.pc = "loaded"
  /\ page' = [page EXCEPT !.pc = "fetching", !.isLoading = TRUE, !.errorMessage = "",
                          !.view = "loading"]
  /\ UNCHANGED <<served, calls>>

\* the page's request reaches the server: body { token }
PageExchange(c, D) ==
  /\ page.pc = "fetching"
  /\ Accepts(D)
  /\ ExchangeTokenHandler(c, page.token)
  /\ page' = [page EXCEPT !.pc = "awaiting", !.call = c]
  /\ UNCHANGED <<expectedSecret, pmsWebhook, slugged, settings, trial, now, issued, db, sessions,
                 webhooks>>

\* the fetch resolves: a response that is not ok throws its message into the catch,
\* which sets errorMessage, and the finally sets isLoading false; an ok one is parsed
\* and refreshSession awaited
PageResponse ==
  /\ page.pc = "awaiting"
  /\ calls[page.call].pc = "done"
  /\ page' = IF calls[page.call].status # 200
             THEN [page EXCEPT !.pc = "settled", !.errorMessage = calls[page.call].message,
                               !.isLoading = FALSE]
             ELSE [page EXCEPT !.pc = "refreshing"]
  /\ UNCHANGED <<served, calls>>

\* refreshSession resolves: window.location.replace(targetUrl), then the finally
RefreshSession ==
  /\ page.pc = "refreshing"
  /\ page' = [page EXCEPT !.pc = "replaced", !.location = targetUrl(calls[page.call]),
                          !.isLoading = FALSE]
  /\ UNCHANGED <<served, calls>>

\* React renders the component again after its state changed
Render ==
  /\ page.pc \in {"settled", "replaced"}
  /\ page.view # View(page)
  /\ page' = [page EXCEPT !.view = View(page)]
  /\ UNCHANGED <<served, calls>>

\* the navigation started by location.replace commits: the document is gone
Unload ==
  /\ page.pc = "replaced"
  /\ page' = [page EXCEPT !.pc = "left", !.view = "none"]
  /\ UNCHANGED <<served, calls>>

NextPage ==
  \/ NextOf(LiveRuns)
  \/ \E query \in PageQueries : Loader(query)
  \/ Mount
  \/ \E c \in 1..MaxCalls : PageExchange(c, LiveRuns)
  \/ PageResponse
  \/ RefreshSession
  \/ Render
  \/ Unload

SpecPage == Init /\ [][NextPage]_vars

(* ------------------------- the settings pages ------------------------- *)

\* isExternalUser(user): false for null and undefined (0), else the provider is EXTERNAL
isExternalUser(user) ==
  IF user = 0 THEN FALSE ELSE users[user].identityProvider = "EXTERNAL"

\* variant: every signed-in user is sent away
GuardRedirectsSignedIn(user) == user # 0

\* user?.identityProvider === IdentityProvider.EXTERNAL
GuardRedirects(user) == user # 0 /\ users[user].identityProvider = "EXTERNAL"

\* the session user of a request: none (0), or a user, signed in through this
\* route or any other
SessionUsers == 0..Len(users)

\* the loader of the settings layout: getOptionalSession, then throw redirect('/') or
\* return {}; the navigation hides its settings entries by isExternalUser
SettingsLoader(user) ==
  /\ settings' = settings \cup {[user |-> user,
                                 outcome |-> IF GuardRedirects(user) THEN "/" ELSE "settings",
                                 external |-> isExternalUser(user)]}
  /\ UNCHANGED <<expectedSecret, pmsWebhook, slugged, page, trial, now, store, db, sessions,
                 webhooks, calls>>

NextSettings ==
  \/ NextOf(LiveRuns)
  \/ \E user \in SessionUsers : SettingsLoader(user)

SpecSettings == Init /\ [][NextSettings]_vars

(* ------------- authorize-business against generate + exchange ---------- *)

\* The two ways to provision are run one after the other from the same state: first
\* authorize-business alone; its outcome is kept, the stores are put back as they
\* were at the start, and generate-token runs, followed at once by exchange-token
\* with the token it returned. The secret supplied is the valid one.
TrialRequests ==
  [email : {<<"a">>, <<"B">>, <<>>}, name : {"Ann"}, businessId : {<<"_">>, <<"a", "1">>},
   businessName : {"Biz", ""}, role : {"undefined", "ADMIN", "OWNER"}]

ValidSecret == "s3cret"

\* the state as the request whose response is in call c left it
Outcome(c) ==
  [users |-> users, organisations |-> organisations, teams |-> teams, members |-> members,
   apiTokens |-> apiTokens,
   sessionUsers |-> {s[2] : s \in sessions},
   attempts |-> [i \in 1..Len(webhooks) |->
                   [businessId |-> webhooks[i].businessId, apiToken |-> webhooks[i].apiToken,
                    secret |-> webhooks[i].secret]],
   status |-> calls[c].status, message |-> calls[c].message,
   respUser |-> calls[c].respUser, respOrg |-> calls[c].respOrg, respTeam |-> calls[c].respTeam]

\* the first run is about to start: the request is chosen and the database noted
Begin(request) ==
  /\ trial.phase = "idle"
  /\ \A c \in CallIds : calls[c].pc = "idle"
  /\ trial' = [trial EXCEPT !.phase = "direct", !.request = request,
                            !.start = [users |-> users, organisations |-> organisations,
                                       teams |-> teams, members |-> members,
                                       apiTokens |-> apiTokens]]
  /\ UNCHANGED <<expectedSecret, pmsWebhook, slugged, page, settings, now, store, db, sessions,
                 webhooks, calls>>

\* POST /authorize-business with the request
PostDirect ==
  /\ trial.phase = "direct"
  /\ LET q == trial.request
     IN AuthorizeBusiness(1, q.email, q.name, q.businessId, q.businessName, q.role, ValidSecret)

\* authorize-business has answered: its outcome is kept and everything is put back
\* as it was at the start
Restart ==
  /\ trial.phase = "direct"
  /\ calls[1].pc = "done"
  /\ trial' = [trial EXCEPT !.phase = "token", !.first = Outcome(1)]
  /\ users' = trial.start.users
  /\ organisations' = trial.start.organisations
  /\ teams' = trial.start.teams
  /\ members' = trial.start.members
  /\ apiTokens' = trial.start.apiTokens
  /\ authTokenStore' = <<>>
  /\ issued' = <<>>
  /\ sessions' = {}
  /\ webhooks' = <<>>
  /\ calls' = [c \in CallIds |-> IdleCall]
  /\ UNCHANGED <<expectedSecret, pmsWebhook, slugged, page, settings, now>>

\* POST /generate-token with the request
PostToken ==
  /\ trial.phase = "token"
  /\ LET q == trial.request
     IN GenerateToken(1, q.email, q.name, q.businessId, q.businessName, q.role, ValidSecret)

\* POST /exchange-token with the token generate-token returned, at once
PostTokenExchange ==
  /\ trial.phase = "token"
  /\ calls[1].op = "generate-token" /\ calls[1].pc = "done" /\ calls[1].status = 200
  /\ ExchangeToken(2, calls[1].token)

\* the call that holds the response of the second run; 0 while it is under way
LastOfToken ==
  IF trial.phase # "token" THEN 0
  ELSE IF calls[1].pc = "done" /\ calls[1].status # 200 THEN 1
  ELSE IF calls[2].pc = "done" THEN 2
  ELSE 0

\* the awaits of the two provisioning handlers
Provisioning(c) ==
  \/ FindUser(c) \/ CreateUser(c) \/ UpdateUser(c)
  \/ FindOrganisation(c) \/ CreateOrganisation(c) \/ RereadOrganisation(c)
  \/ CreateTeam(c) \/ ReloadOrganisation(c)
  \/ FindMember(c) \/ CreateMember(c)
  \/ OnAuthorize(c)
  \/ FindApiToken(c) \/ CreateApiToken(c)
  \/ \E outcome \in FetchOutcomes : FetchWebhook(c, outcome)

NextTrial ==
  \/ \E request \in TrialRequests : Begin(request)
  \/ PostDirect
  \/ Restart
  \/ PostToken
  \/ PostTokenExchange
  \/ \E c \in 1..MaxCalls : Provisioning(c)

SpecTrial == Init /\ [][NextTrial]_vars

\* The page beside three requests, so that another caller can be creating the
\* organisation while the page's exchange runs. The secret and the webhook are set.
RaceRuns == [LiveRuns EXCEPT !.calls = MaxTokenCalls]

InitRace ==
  /\ Init
  /\ expectedSecret # ""
  /\ pmsWebhook.url # ""
  /\ pmsWebhook.secret # ""

NextPageRace ==
  \/ NextOf(RaceRuns)
  \/ \E query \in PageQueries : Loader(query)
  \/ Mount
  \/ \E c \in 1..MaxTokenCalls : PageExchange(c, RaceRuns)
  \/ PageResponse
  \/ RefreshSession
  \/ Render
  \/ Unload

SpecPageRace == InitRace /\ [][NextPageRace]_vars

(* ------------------------------ properties ----------------------------- *)

Provisions == {"authorize-business", "exchange-token"}

SecretOps == {"generate-token", "authorize", "authorize-business", "verify", "remove-member"}

\* the exchange-token calls that presented token t
Exchanges(t) == {c \in CallIds : calls[c].op = "exchange-token" /\ calls[c].token = t}

\* the call got past the entry of its handler: it was not refused
ObtainedClaim(c) ==
  /\ calls[c].pc # "idle"
  /\ ~(calls[c].pc = "done" /\ calls[c].status \in {400, 401})

\* the call provisions, or has provisioned, with the claim it holds
HoldsClaim(c) ==
  /\ calls[c].op = "exchange-token"
  /\ \/ calls[c].pc \notin {"idle", "done"}
     \/ calls[c].pc = "done" /\ calls[c].status = 200

OrgsAt(url) == {o \in 1..Len(organisations) : organisations[o].url = url}

TeamsIn(org) == {t \in 1..Len(teams) : teams[t].organisationId = org}

MembersOf(user, org) ==
  {i \in 1..Len(members) : members[i].userId = user /\ members[i].organisationId = org}

UrlConflict == "Unique constraint failed on the fields: url"

MemberConflict == "Unique constraint failed on the fields: userId,organisationId"

\* C1: of the exchange-token calls that present one issued token, in any number and
\* any interleaving, at most one obtains the claim and goes on to provision; every
\* other one is answered 401, at any later time too.
C1_AtMostOneExchange ==
  \A t \in 1..Len(issued) :
    \A c, d \in Exchanges(t) :
      c # d /\ ObtainedClaim(c) => calls[d].pc = "done" /\ calls[d].status = 401

\* two calls presented one issued token: one was answered 200, the other 401
C1_TwoPresented ==
  \E t \in 1..Len(issued) :
    \E c, d \in Exchanges(t) :
      /\ calls[c].pc = "done" /\ calls[c].status = 200
      /\ calls[d].pc = "done" /\ calls[d].status = 401

\* C2: an exchange-token call that provisions does so with exactly the email, name,
\* businessId and businessName given to the generate-token call that issued its token,
\* and with that call's role, MEMBER when it gave none; never with another token's claim.
C2_RoundTrip ==
  \A c \in CallIds :
    HoldsClaim(c) =>
      \E g \in CallIds :
        /\ calls[g].op = "generate-token" /\ calls[g].status = 200
        /\ calls[g].token = calls[c].token
        /\ calls[c].email = calls[g].email
        /\ calls[c].name = calls[g].name
        /\ calls[c].businessId = calls[g].businessId
        /\ calls[c].businessName = calls[g].businessName
        /\ calls[c].role = (IF calls[g].role = "undefined" THEN "MEMBER" ELSE calls[g].role)

\* two tokens were issued with different roles, one of them without a role, and
\* that one was exchanged
C2_DefaultedAmongTwo ==
  \E c, g, h \in CallIds :
    /\ HoldsClaim(c) /\ calls[c].role = "MEMBER"
    /\ calls[g].op = "generate-token" /\ calls[g].token = calls[c].token
    /\ calls[g].role = "undefined"
    /\ calls[h].op = "generate-token" /\ calls[h].status = 200 /\ calls[h].role = "ADMIN"

\* C3: an exchange-token call that presents an issued token more than TOKEN_EXPIRY_MS
\* after it was issued is answered 401, whether the sweep has removed the entry or
\* not; it creates no user, organisation, membership or session, and the entry is gone.
C3_StaleIsRefused ==
  [][\A c \in CallIds : \A t \in 1..Len(issued) :
       ( /\ calls[c].pc = "idle"
         /\ calls'[c].op = "exchange-token"
         /\ calls'[c].token = t
         /\ now - issued[t].createdAt > TOKEN_EXPIRY_MS )
       => /\ calls'[c].pc = "done"
          /\ calls'[c].status = 401
          /\ t \notin DOMAIN authTokenStore'
          /\ UNCHANGED <<db, sessions, webhooks>>]_vars

\* a token was presented too late while its entry was still in the store
C3_StalePresented ==
  \E c \in CallIds :
    /\ calls[c].op = "exchange-token" /\ calls[c].pc = "done"
    /\ calls[c].message = "Token has expired"
    /\ calls[c].token \in 1..Len(issued)
    /\ now - issued[calls[c].token].createdAt > TOKEN_EXPIRY_MS

\* C4: when the provisioning calls have all returned, every organisation url is
\* held by one organisation, every organisation has one team, and the url of every
\* call answered 200 is held by one organisation: so it is after two concurrent
\* first calls for one businessId, however they interleave.
C4_OneOrganisationOneTeam ==
  InFlight = {} =>
    /\ \A o \in 1..Len(organisations) :
         /\ Cardinality(OrgsAt(organisations[o].url)) = 1
         /\ Cardinality(TeamsIn(o)) = 1
    /\ \A c \in CallIds :
         calls[c].op \in Provisions /\ calls[c].status = 200
           => Cardinality(OrgsAt(orgUrl(calls[c].businessId))) = 1

\* two calls raced to create the organisation of one businessId and have returned
C4_RacedToCreate ==
  \E c, d \in CallIds :
    /\ InFlight = {}
    /\ calls[c].op \in Provisions /\ calls[c].status = 200
    /\ calls[d].op \in Provisions /\ calls[d].message = UrlConflict
    /\ Cardinality(OrgsAt(orgUrl(calls[c].businessId))) = 1
    /\ Cardinality(TeamsIn(calls[c].respOrg)) = 1

\* C5: the uniqueness conflict on the organisation url is never an error of a
\* provisioning call: the call that lost the race to create is answered 200.
C5_ConflictNeverSurfaced ==
  \A c \in CallIds :
    calls[c].pc = "done" /\ calls[c].op \in Provisions => calls[c].message # UrlConflict

\* C6: two provisioning calls answered 200, one after the other, for one user email
\* and one businessId return the same organisation id and team id, and after the
\* second the store holds one organisation at that url and one membership of the
\* user in it.
C6_SequentialIdempotence ==
  \A c, d \in CallIds :
    ( /\ c < d
      /\ calls[c].op \in Provisions /\ calls[c].pc = "done" /\ calls[c].status = 200
      /\ calls[d].op \in Provisions /\ calls[d].pc = "done" /\ calls[d].status = 200
      /\ toLowerCase(calls[c].email) = toLowerCase(calls[d].email)
      /\ calls[c].businessId = calls[d].businessId )
    => /\ calls[c].respOrg = calls[d].respOrg
       /\ calls[c].respTeam = calls[d].respTeam
       /\ Cardinality(OrgsAt(orgUrl(calls[d].businessId))) = 1
       /\ Cardinality(MembersOf(calls[d].respUser.id, calls[d].respOrg)) = 1

\* C7: a (user, organisation) pair has at most one membership, also when two calls
\* race to add it, and the call whose insert is the duplicate is answered 200.
C7_OneMembershipNoConflict ==
  /\ \A i, j \in 1..Len(members) :
       /\ members[i].userId = members[j].userId
       /\ members[i].organisationId = members[j].organisationId
       => i = j
  /\ \A c \in CallIds :
       calls[c].pc = "done" /\ calls[c].op \in Provisions => calls[c].message # MemberConflict

\* C8: a call of generate-token, authorize, authorize-business, verify or
\* remove-member that arrives while the secret is unset, or with another secret
\* than the configured one, is refused at once with 401 or 500, whatever its other
\* fields, and the token store, the database, the sessions and the webhook are
\* left as they were.
C8_FailClosed ==
  [][\A c \in CallIds :
       ( /\ calls[c].pc = "idle"
         /\ calls'[c].op \in SecretOps
         /\ (expectedSecret = "" \/ calls'[c].secret # expectedSecret) )
       => /\ calls'[c].pc = "done"
          /\ calls'[c].status \in {401, 500}
          /\ UNCHANGED <<store, db, sessions, webhooks>>]_vars

\* a call of authorize-business with another secret than the configured one was refused
C8_Refused ==
  \E c \in CallIds :
    /\ calls[c].op = "authorize-business" /\ calls[c].pc = "done"
    /\ expectedSecret # "" /\ calls[c].secret # expectedSecret
    /\ calls[c].status = 401

\* C9 as stated: with the secret unset every operation that takes externalSecret
\* answers 500.
C9_UnsetIsAlways500 ==
  \A c \in CallIds :
    calls[c].pc = "done" /\ calls[c].op \in SecretOps /\ expectedSecret = ""
      => calls[c].status = 500

\* C9: generate-token, authorize and authorize-business answer an unset secret with
\* 500 'External authentication is not configured' and a mismatching one with 401
\* 'Invalid external secret'; verify and remove-member answer both with
\* 401 'Unauthorized'.
C9_UnsetIs500WhereGated ==
  \A c \in CallIds :
    calls[c].pc = "done" =>
      /\ ( /\ calls[c].op \in {"generate-token", "authorize", "authorize-business"}
           /\ expectedSecret = "" )
         => /\ calls[c].status = 500
            /\ calls[c].message = "External authentication is not configured"
      /\ ( /\ calls[c].op \in {"generate-token", "authorize", "authorize-business"}
           /\ expectedSecret # ""
           /\ calls[c].secret # expectedSecret )
         => /\ calls[c].status = 401
            /\ calls[c].message = "Invalid external secret"
      /\ ( /\ calls[c].op \in {"verify", "remove-member"}
           /\ (expectedSecret = "" \/ calls[c].secret # expectedSecret) )
         => /\ calls[c].status = 401
            /\ calls[c].message = "Unauthorized"

\* with the secret unset, generate-token answered 500 and verify answered 401
C9_UnsetAnswered ==
  \E c, d \in CallIds :
    /\ expectedSecret = ""
    /\ calls[c].op = "generate-token" /\ calls[c].status = 500
    /\ calls[d].op = "verify" /\ calls[d].status = 401

\* a businessId made of characters of the class [a-z0-9-] only
InSlugClass(businessId) == \A i \in 1..Len(businessId) : businessId[i] \in SlugChars

\* C10 as stated: two different businessIds never have the same organisation url.
C10_SlugInjective ==
  \A i, j \in 1..Len(slugged) :
    slugged[i].businessId # slugged[j].businessId => slugged[i].url # slugged[j].url

\* C10: two different businessIds made of lower-case letters, digits and hyphens
\* only have different organisation urls.
C10_SlugInjectiveInClass ==
  \A i, j \in 1..Len(slugged) :
    ( /\ slugged[i].businessId # slugged[j].businessId
      /\ InSlugClass(slugged[i].businessId)
      /\ InSlugClass(slugged[j].businessId) )
    => slugged[i].url # slugged[j].url

\* the urls of a1 and a- were computed
C10_DigitAndHyphen ==
  /\ Len(slugged) = 2
  /\ slugged[1].businessId = <<"a", "1">>
  /\ slugged[2].businessId = <<"a", "-">>

C12_StaleAsAbsent ==
  \A c, d \in CallIds :
    ( /\ calls[c].op = "exchange-token" /\ calls[c].pc = "done" /\ calls[c].status = 401
      /\ calls[d].op = "exchange-token" /\ calls[d].pc = "done" /\ calls[d].status = 401 )
    => calls[c].message = calls[d].message

\* the age of the entry issued under token t
Age(t) == now - issued[t].createdAt

\* C13: a run of the sweep (a step that changes the store and neither a call, the
\* history of issues nor the clock) keeps exactly the entries not older than
\* TOKEN_EXPIRY_MS; and an exchange-token call that presents an issued token not
\* older than TOKEN_EXPIRY_MS that no call presented before obtains the claim,
\* however the sweep ran before.
C13_SweepRemovesOnlyStale ==
  [][ /\ (calls' = calls /\ issued' = issued /\ now' = now)
         => /\ DOMAIN authTokenStore' =
                 {t \in DOMAIN authTokenStore : now - authTokenStore[t].createdAt <= TOKEN_EXPIRY_MS}
            /\ \A t \in DOMAIN authTokenStore' : authTokenStore'[t] = authTokenStore[t]
      /\ \A c \in CallIds : \A t \in 1..Len(issued) :
           ( /\ calls[c].pc = "idle"
             /\ calls'[c].op = "exchange-token"
             /\ calls'[c].token = t
             /\ Age(t) <= TOKEN_EXPIRY_MS
             /\ Exchanges(t) = {} )
           => calls'[c].pc = "findUser" ]_vars

\* the sweep has removed a stale entry and kept a younger one, which was
\* exchanged afterwards
C13_SweptAroundFresh ==
  \E t, u \in 1..Len(issued) :
    /\ Age(t) > TOKEN_EXPIRY_MS /\ t \notin DOMAIN authTokenStore /\ Exchanges(t) = {}
    /\ issued[u].createdAt - issued[t].createdAt = ClockStep
    /\ \E c \in Exchanges(u) : ObtainedClaim(c)

\* C14: with the sweep and the clock running, every entry put in the store is
\* eventually not in it, exchanged or not.
C14_EveryEntryLeaves ==
  \A t \in CallIds : (t \in DOMAIN authTokenStore) ~> (t \notin DOMAIN authTokenStore)

\* an entry issued after time 0 that no call presented has left the store
C14_SweptUnpresented ==
  \E t \in 1..Len(issued) :
    /\ issued[t].createdAt > 0
    /\ Exchanges(t) = {}
    /\ t \notin DOMAIN authTokenStore

\* C15: the organisation and its default team are created in one step: in no state
\* is there an organisation without a team, and no provisioning call is answered 200
\* without a team.
C15_OrganisationWithTeam ==
  /\ \A o \in 1..Len(organisations) : TeamsIn(o) # {}
  /\ \A c \in CallIds :
       calls[c].op \in Provisions /\ calls[c].pc = "done" /\ calls[c].status = 200
         => calls[c].respTeam # 0

\* the routes that resolve a user
Resolves == {"authorize", "authorize-business", "exchange-token"}

\* two emails that differ in letter case at most
SameFolded(e, f) ==
  /\ Len(e) = Len(f)
  /\ \A k \in 1..Len(e) : LowerChar(e[k]) = LowerChar(f[k])

\* C16: there is at most one user per lower-cased email, every stored email is
\* lower-case, and calls answered 200 for emails that differ in letter case at most
\* return the same user id.
C16_OneUserPerEmail ==
  /\ \A i, j \in 1..Len(users) : SameFolded(users[i].email, users[j].email) => i = j
  /\ \A i \in 1..Len(users) : \A k \in 1..Len(users[i].email) :
       users[i].email[k] = LowerChar(users[i].email[k])
  /\ \A c, d \in CallIds :
       ( /\ calls[c].op \in Resolves /\ calls[c].pc = "done" /\ calls[c].status = 200
         /\ calls[d].op \in Resolves /\ calls[d].pc = "done" /\ calls[d].status = 200
         /\ SameFolded(calls[c].email, calls[d].email) )
       => calls[c].respUser.id = calls[d].respUser.id

\* a user created for A was found again for a
C16_FoundInOtherCase ==
  \E c, d \in CallIds :
    /\ c < d
    /\ calls[c].op \in Resolves /\ calls[c].status = 200 /\ calls[c].email = <<"A">>
    /\ calls[d].op \in Resolves /\ calls[d].status = 200 /\ calls[d].email = <<"a">>
    /\ Len(users) = 1
    /\ users[1].identityProvider = "EXTERNAL"

\* C17: the user that a call creates, having found none for the lower-cased email,
\* is one new row with identity provider EXTERNAL, a set emailVerified, the name
\* supplied by the call and its email in lower case.
C17_CreatedUser ==
  [][\A c \in CallIds :
       (calls[c].pc = "createUser" /\ calls'[c] # calls[c] /\ users' # users)
       => /\ Len(users') = Len(users) + 1
          /\ SubSeq(users', 1, Len(users)) = users
          /\ LET u == users'[Len(users')]
             IN /\ u.identityProvider = "EXTERNAL"
                /\ u.emailVerified
                /\ u.name = calls[c].name
                /\ SameFolded(u.email, calls[c].email)
                /\ \A i \in 1..Len(users) : ~SameFolded(users[i].email, u.email)]_vars

\* a call for A has created the user a named Ann
C17_CreatedAnn ==
  \E c \in CallIds :
    /\ calls[c].op \in Resolves /\ calls[c].pc = "done" /\ calls[c].status = 200
    /\ calls[c].email = <<"A">> /\ calls[c].name = "Ann"
    /\ calls[c].respUser.id = Len(users)
    /\ users[Len(users)] = [email |-> <<"a">>, name |-> "Ann", emailVerified |-> TRUE,
                            identityProvider |-> "EXTERNAL"]

\* the user a call looks up: the row of its lower-cased email, 0 for none
Sought(c) ==
  IF \E i \in 1..Len(users) : SameFolded(users[i].email, calls[c].email)
  THEN CHOOSE i \in 1..Len(users) : SameFolded(users[i].email, calls[c].email)
  ELSE 0

\* C18: a call that finds its user under another name than the one it supplies
\* goes on to write the name, and its write leaves the supplied name stored and
\* nothing else changed; a call that finds its user under the supplied name writes
\* nothing; a stored name changes in no other way; and the name in a 200 response
\* is the supplied name.
C18_NameLastWriteWins ==
  [][\A c \in CallIds :
       /\ (calls[c].pc = "findUser" /\ calls'[c] # calls[c] /\ Sought(c) # 0)
          => /\ users' = users
             /\ (users[Sought(c)].name # calls[c].name) => calls'[c].pc = "updateUser"
             /\ (users[Sought(c)].name = calls[c].name)
                  => calls'[c].pc \notin {"updateUser", "createUser"}
       /\ (calls[c].pc = "updateUser" /\ calls'[c] # calls[c])
          => /\ users' = [users EXCEPT ![calls[c].user.id].name = calls[c].name]
             /\ calls'[c].user.name = calls[c].name
       /\ (\E i \in 1..Len(users) : users'[i] # users[i])
          => \E d \in CallIds : calls[d].pc = "updateUser" /\ calls'[d] # calls[d]
       /\ ( /\ calls'[c].op \in Resolves
            /\ calls'[c].pc = "done" /\ calls'[c].status = 200 )
          => calls'[c].respUser.name = calls'[c].name]_vars

\* the user a of the host application, named Al, was found by a call that
\* supplied Ann and is now named Ann, in the store and in the response
C18_Renamed ==
  \E c \in CallIds :
    /\ calls[c].op \in Resolves /\ calls[c].pc = "done" /\ calls[c].status = 200
    /\ calls[c].name = "Ann" /\ calls[c].respUser = [id |-> 1, name |-> "Ann"]
    /\ Len(users) = 2
    /\ users[1].identityProvider = "DOCUMENSO" /\ users[1].name = "Ann"

\* the steps of a provisioning call after its membership step
AfterMembership == {"onAuthorize", "findApiToken", "createApiToken", "fetchWebhook"}

\* C19: a provisioning call that finds the organisation, no membership of its user
\* in it and no group of the organisation for the requested role creates no
\* membership and goes on; from there on it writes no membership and is answered
\* 200 with the organisation and the team it found.
C19_NoGroupNoMembership ==
  [][\A c \in CallIds :
       /\ ( /\ calls[c].pc = "findMember" /\ calls'[c] # calls[c]
            /\ ~HasMember(calls[c].user.id, calls[c].organisation.id)
            /\ organisationRole(calls[c].role) \notin calls[c].organisation.groups )
          => calls'[c].pc = "onAuthorize" /\ members' = members
       /\ ( /\ calls[c].op \in Provisions
            /\ calls[c].pc \in AfterMembership /\ calls'[c] # calls[c] )
          => /\ members' = members
             /\ calls'[c].pc \in AfterMembership \cup {"done"}
             /\ calls'[c].pc = "done"
                  => /\ calls'[c].status = 200
                     /\ calls'[c].respOrg = calls[c].organisation.id
                     /\ calls'[c].respTeam = calls[c].organisation.team]_vars

\* a call for a role without a group was answered 200 with the organisation and
\* its team, and its user has no membership
C19_SkippedMembership ==
  \E c \in CallIds :
    /\ calls[c].op \in Provisions /\ calls[c].pc = "done" /\ calls[c].status = 200
    /\ calls[c].role = "OWNER"
    /\ calls[c].respOrg = 1 /\ calls[c].respTeam = 1
    /\ MembersOf(calls[c].respUser.id, 1) = {}

\* the roles of the request type
Roles == {"ADMIN", "MANAGER", "MEMBER"}

\* C20: a role outside {ADMIN, MANAGER, MEMBER} is refused by generate-token and
\* authorize-business: no entry of the token store ever has such a role, and no
\* call goes on or succeeds with one.
C20_UnknownRoleRefused ==
  /\ \A t \in 1..Len(issued) : issued[t].role \in Roles
  /\ \A c \in CallIds :
       ( /\ calls[c].op \in {"generate-token", "authorize-business", "exchange-token"}
         /\ calls[c].role \notin Roles \cup {"undefined"} )
       => calls[c].pc = "done" /\ calls[c].status = 400

\* C21: the membership a provisioning call creates for a user who joins an
\* existing organisation is one new row for that user and organisation, attached to
\* one group: the group of the organisation whose role is the role of the call.
C21_MemberInRoleGroup ==
  [][\A c \in CallIds :
       (calls[c].pc = "createMember" /\ calls'[c] # calls[c] /\ members' # members)
       => /\ Len(members') = Len(members) + 1
          /\ SubSeq(members', 1, Len(members)) = members
          /\ LET row == members'[Len(members')]
             IN /\ row.userId = calls[c].user.id
                /\ row.organisationId = calls[c].organisation.id
                /\ row.group = calls[c].role
                /\ row.group \in Roles
                /\ row.group \in organisations[row.organisationId].groups]_vars

\* a call with role MANAGER has made its user a member in the MANAGER group
C21_JoinedAsManager ==
  \E c \in CallIds : \E i \in 1..Len(members) :
    /\ calls[c].op \in Provisions /\ calls[c].pc = "done" /\ calls[c].status = 200
    /\ calls[c].role = "MANAGER"
    /\ members[i].userId = calls[c].respUser.id
    /\ members[i].organisationId = calls[c].respOrg
    /\ members[i].group = "MANAGER"
    /\ organisations[calls[c].respOrg].ownerUserId # calls[c].respUser.id

\* C22: a team has at most one credential of a given name, in every state.
C22_OneCredentialPerTeam ==
  \A i, j \in 1..Len(apiTokens) :
    (apiTokens[i].teamId = apiTokens[j].teamId /\ apiTokens[i].name = apiTokens[j].name)
      => i = j

\* C23: a request goes to the webhook only from the call that has just created
\* the credential it carries, and once per credential: not again in that call, nor
\* from a later call, whatever came of it.
C23_OneAttemptPerCredential ==
  [][/\ \A c \in CallIds :
          (calls[c].apiToken = 0 /\ calls'[c].apiToken # 0)
          => /\ calls[c].pc = "createApiToken"
             /\ Len(apiTokens') = Len(apiTokens) + 1
             /\ calls'[c].apiToken = Len(apiTokens')
     /\ webhooks' # webhooks
          => /\ Len(webhooks') = Len(webhooks) + 1
             /\ SubSeq(webhooks', 1, Len(webhooks)) = webhooks
             /\ \E c \in CallIds :
                  /\ calls[c].pc = "fetchWebhook" /\ calls'[c].pc = "done"
                  /\ webhooks'[Len(webhooks')].apiToken = calls[c].apiToken
             /\ \A i \in 1..Len(webhooks) :
                  webhooks[i].apiToken # webhooks'[Len(webhooks')].apiToken]_vars

\* the delivery of a new credential failed, and a later call for the same business
\* was answered without another request to the webhook
C23_FailedNotRetried ==
  \E c, d \in CallIds :
    /\ c < d /\ InFlight = {}
    /\ calls[c].op \in Provisions /\ calls[c].status = 200
    /\ calls[d].op \in Provisions /\ calls[d].status = 200
    /\ calls[c].businessId = calls[d].businessId
    /\ calls[c].respTeam # 0 /\ calls[d].respTeam = calls[c].respTeam
    /\ Len(webhooks) = 1 /\ webhooks[1].outcome = "error"

\* the 200 response of a provisioning call, as its record holds it
AnsweredOk(before, after) ==
  /\ after.pc = "done" /\ after.status = 200 /\ after.message = ""
  /\ after.respUser = before.user
  /\ after.respOrg = before.organisation.id
  /\ after.respTeam = before.organisation.team

\* C24: what the webhook does has no part in the response nor in what is written:
\* a call that has created its credential is answered 200 with its user,
\* organisation and team, be the webhook not configured or its request answered
\* 2xx, otherwise, or not at all; the credential is created the same, and the
\* step of the webhook writes no user, organisation, membership, credential or
\* session.
C24_WebhookOutcomeUnseen ==
  [][\A c \in CallIds :
       /\ (calls[c].pc = "createApiToken" /\ calls'[c] # calls[c])
          => /\ apiTokens' = Append(apiTokens, [name |-> calls[c].organisation.id,
                                                teamId |-> calls[c].organisation.team,
                                                userId |-> calls[c].user.id])
             /\ UNCHANGED <<users, organisations, teams, members, sessions>>
             /\ calls'[c].pc = "fetchWebhook" \/ AnsweredOk(calls[c], calls'[c])
       /\ (calls[c].pc = "fetchWebhook" /\ calls'[c] # calls[c])
          => /\ AnsweredOk(calls[c], calls'[c])
             /\ UNCHANGED <<db, sessions>>]_vars

\* a call was answered 200 with its team although the webhook answered its
\* request with another status than 2xx
C24_AnsweredDespiteNotOk ==
  \E c \in CallIds : \E i \in 1..Len(webhooks) :
    /\ calls[c].op \in Provisions /\ calls[c].pc = "done" /\ calls[c].status = 200
    /\ calls[c].respTeam # 0
    /\ webhooks[i].businessId = calls[c].businessId
    /\ webhooks[i].outcome = "not-ok"
    /\ apiTokens[webhooks[i].apiToken].userId = calls[c].respUser.id

\* C25: every exchange-token call that has obtained the claim of its token is
\* answered in the end, though the webhook endpoint never answers.
C25_ExchangeAnswered ==
  \A c \in CallIds :
    (calls[c].op = "exchange-token" /\ calls[c].pc = "findUser") ~> (calls[c].pc = "done")

\* C26: while the url or the secret of the webhook is not configured no request
\* goes to the webhook, and a call that creates a credential stores it and is
\* answered 200 at once.
C26_SkippedWhenUnconfigured ==
  [][(pmsWebhook.url = "" \/ pmsWebhook.secret = "")
       => /\ webhooks' = <<>>
          /\ \A c \in CallIds :
               (calls[c].pc = "createApiToken" /\ calls'[c] # calls[c])
               => /\ Len(apiTokens') = Len(apiTokens) + 1
                  /\ AnsweredOk(calls[c], calls'[c])]_vars

\* with a url and no secret, a call has created its user, organisation, team and
\* credential and was answered, and no request went to the webhook
C26_MintedWithoutSecret ==
  \E c \in CallIds :
    /\ pmsWebhook.url # "" /\ pmsWebhook.secret = ""
    /\ calls[c].op \in Provisions /\ calls[c].pc = "done" /\ calls[c].status = 200
    /\ Len(users) = 1 /\ Len(apiTokens) = 1
    /\ apiTokens[1].teamId = calls[c].respTeam
    /\ apiTokens[1].userId = calls[c].respUser.id
    /\ webhooks = <<>>

\* C27: a remove-member call that finds no user for its email, or no organisation
\* for its businessId, is answered 200 'User not found' or 'Organisation not found'
\* and writes nothing; one that finds both removes the memberships of that user in
\* that organisation and nothing else, so that a repeated call leaves the state as
\* the first left it.
C27_RemoveIsIdempotent ==
  [][\A c \in CallIds :
       /\ (calls[c].pc = "removeFindUser" /\ calls'[c] # calls[c] /\ Sought(c) = 0)
          => /\ calls'[c].pc = "done" /\ calls'[c].status = 200
             /\ calls'[c].message = "User not found"
             /\ UNCHANGED <<store, db, sessions, webhooks>>
       /\ ( /\ calls[c].pc = "removeFindOrganisation" /\ calls'[c] # calls[c]
            /\ OrgsAt(orgUrl(calls[c].businessId)) = {} )
          => /\ calls'[c].pc = "done" /\ calls'[c].status = 200
             /\ calls'[c].message = "Organisation not found"
             /\ UNCHANGED <<store, db, sessions, webhooks>>
       /\ (calls[c].pc = "deleteMembers" /\ calls'[c] # calls[c])
          => /\ calls'[c].pc = "done" /\ calls'[c].status = 200
             /\ UNCHANGED <<store, users, organisations, teams, apiTokens, sessions, webhooks>>
             /\ LET gone == MembersOf(calls[c].user.id, calls[c].organisation.id)
                IN /\ gone = {} => members' = members
                   /\ Len(members') = Len(members) - Cardinality(gone)
                   /\ \A i \in 1..Len(members') :
                        ~( /\ members'[i].userId = calls[c].user.id
                           /\ members'[i].organisationId = calls[c].organisation.id )
                   /\ \A i \in 1..Len(members) :
                        i \notin gone => \E j \in 1..Len(members') : members'[j] = members[i]]_vars

\* remove-member was answered 'User not found' for one email and 'Organisation
\* not found' for a business of a user that exists
C27_NothingToRemove ==
  \E c, d \in CallIds :
    /\ calls[c].op = "remove-member" /\ calls[c].status = 200
    /\ calls[c].message = "User not found"
    /\ calls[d].op = "remove-member" /\ calls[d].status = 200
    /\ calls[d].message = "Organisation not found"

\* C28: exchange-token with no token is answered 400, and with a token that the
\* store does not hold 401 'Invalid or expired token'; either way the call ends
\* there, and the token store, the database and the sessions are as they were.
C28_UnknownTokenRefused ==
  [][\A c \in CallIds :
       ( /\ calls[c].pc = "idle" /\ calls'[c].op = "exchange-token"
         /\ (calls'[c].token = 0 \/ calls'[c].token \notin DOMAIN authTokenStore) )
       => /\ calls'[c].pc = "done"
          /\ calls'[c].token = 0 => calls'[c].status = 400
          /\ calls'[c].token # 0
               => calls'[c].status = 401 /\ calls'[c].message = "Invalid or expired token"
          /\ UNCHANGED <<authTokenStore, db, sessions>>]_vars

\* while the store held an entry, one exchange-token call with a token nobody
\* was given was answered 401 and one with no token 400
C28_RefusedBesideLiveEntry ==
  /\ DOMAIN authTokenStore # {}
  /\ \E c, d \in CallIds :
       /\ calls[c].op = "exchange-token" /\ calls[c].token = ForgedToken
       /\ calls[c].status = 401 /\ calls[c].message = "Invalid or expired token"
       /\ calls[d].op = "exchange-token" /\ calls[d].token = 0 /\ calls[d].status = 400

\* C29: opened without a token parameter, or with an empty one, the page goes to
\* /signin and sends no exchange-token request; opened with a token it does not go
\* to /signin, and the request it sends is an exchange-token with that token.
C29_PageExchangesItsToken ==
  /\ (page.pc # "closed" /\ (~page.query.present \/ page.query.value = 0))
       => page.pc = "signin" /\ page.location = SignInUrl /\ page.call = 0
  /\ (page.pc # "closed" /\ page.query.present /\ page.query.value # 0)
       => /\ page.pc # "signin" /\ page.location # SignInUrl
          /\ page.call # 0 => /\ calls[page.call].op = "exchange-token"
                              /\ calls[page.call].token = page.query.value

\* the page exchanged the token of its url, and the server accepted it
C29_PageExchanged ==
  /\ page.call # 0
  /\ page.query.value \in 1..Len(issued)
  /\ calls[page.call].token = page.query.value
  /\ calls[page.call].status = 200

\* C30: the page shows the loading view from its first render until the exchange is
\* settled; after an exchange answered 200 it never shows the failure view, and
\* after one that was refused or failed it has not navigated anywhere.
C30_OneWayOut ==
  /\ page.pc \in {"fetching", "awaiting", "refreshing"} => page.view = "loading"
  /\ (page.call # 0 /\ calls[page.call].status = 200) => page.view # "failure"
  /\ (page.call # 0 /\ calls[page.call].pc = "done" /\ calls[page.call].status # 200)
       => page.location = NoUrl

\* C31: an exchange-token call answered 200 names the oldest team of its
\* organisation when the organisation has a team, and no team when it has none; the
\* page then navigates to /t/{team}/documents when the response has a team and to
\* /o/{organisation} when it has none, never to /t/{team}.
C31_LandsInDocuments ==
  [][/\ \A c \in CallIds :
          ( /\ calls[c].op = "exchange-token" /\ calls[c].pc # "done"
            /\ calls'[c].pc = "done" /\ calls'[c].status = 200 )
          => LET o == calls'[c].respOrg
             IN /\ TeamsIn(o) = {} => calls'[c].respTeam = 0
                /\ TeamsIn(o) # {}
                     => /\ calls'[c].respTeam \in TeamsIn(o)
                        /\ \A t \in TeamsIn(o) : calls'[c].respTeam <= t
     /\ (page.pc = "refreshing" /\ page'.pc = "replaced")
          => LET r == calls[page.call]
             IN page'.location =
                  IF r.respTeam # 0 THEN [path |-> "/t/documents", id |-> r.respTeam]
                  ELSE [path |-> "/o", id |-> r.respOrg]]_vars

\* C32: a request for a settings page is redirected to '/' when its session user has
\* the identity provider EXTERNAL, and is served when the user has another provider
\* or the request has no session user; isExternalUser is true of exactly the users
\* that are redirected.
C32_ExternalKeptOutOfSettings ==
  [][\A v \in settings' \ settings :
       LET external == v.user # 0 /\ users[v.user].identityProvider = "EXTERNAL"
       IN /\ external => v.outcome = "/"
          /\ ~external => v.outcome = "settings"
          /\ v.external = external]_vars

\* settings was asked for without a session, by a user with a password and by a
\* user the partner brought
C32_EveryKindAsked ==
  /\ \E v \in settings : v.user = 0 /\ v.outcome = "settings"
  /\ \E v \in settings :
       v.user # 0 /\ users[v.user].identityProvider = "DOCUMENSO" /\ v.outcome = "settings"
  /\ \E v \in settings :
       v.user # 0 /\ users[v.user].identityProvider = "EXTERNAL" /\ v.outcome = "/"

\* the remove-member calls that removed the memberships of the user and the
\* organisation that provisioning call c holds
RemovedBefore(c) ==
  {d \in CallIds :
     /\ calls[d].op = "remove-member" /\ calls[d].pc = "done"
     /\ calls[d].message = "Member removed from organisation"
     /\ SameFolded(calls[d].email, calls[c].email)
     /\ orgUrl(calls[d].businessId) = orgUrl(calls[c].businessId)}

\* C33: the delete of remove-member leaves no membership of its user in its
\* organisation, keeps every other membership in its place and changes no user,
\* organisation, team or credential; and a provisioning call for the same user and
\* business that then finds no membership inserts one.
C33_RemovedThenProvisionedAgain ==
  [][\A c \in CallIds :
       /\ (calls[c].pc = "deleteMembers" /\ calls'[c] # calls[c])
          => LET u == calls[c].user.id
                 o == calls[c].organisation.id
                 other(m) == m.userId # u \/ m.organisationId # o
             IN /\ \A i \in 1..Len(members') : other(members'[i])
                /\ members' = SelectSeq(members, other)
                /\ UNCHANGED <<users, organisations, teams, apiTokens, store, sessions>>
       /\ ( /\ calls[c].op \in Provisions /\ calls[c].pc = "findMember"
            /\ calls'[c] # calls[c] /\ RemovedBefore(c) # {}
            /\ MembersOf(calls[c].user.id, calls[c].organisation.id) = {} )
          => calls'[c].pc = "createMember"
       /\ ( /\ calls[c].pc = "createMember" /\ calls'[c] # calls[c]
            /\ MembersOf(calls[c].user.id, calls[c].organisation.id) = {} )
          => /\ Len(members') = Len(members) + 1
             /\ members'[Len(members')].userId = calls[c].user.id
             /\ members'[Len(members')].organisationId = calls[c].organisation.id]_vars

\* C34: a session is issued by one step of one authorize, authorize-business or
\* exchange-token call, after its user was resolved and, for the two that provision,
\* its organisation; the first two presented the configured, non-empty secret, the
\* third took from the store a token not older than TOKEN_EXPIRY_MS, which is gone
\* from the store since; the session is for the user stored under the lower-cased
\* email of the request or of the claim.
C34_SessionNeedsSecretOrToken ==
  [][/\ sessions' # sessions
          => \E c \in CallIds :
               LET r == calls[c]
               IN /\ sessions' = sessions \cup {<<c, r.user.id>>}
                  /\ r.op \in Resolves /\ r.pc = "onAuthorize"
                  /\ r.user.id \in 1..Len(users)
                  /\ SameFolded(users[r.user.id].email, r.email)
                  /\ users[r.user.id].email = [k \in 1..Len(r.email) |-> LowerChar(r.email[k])]
                  /\ r.op \in Provisions => r.organisation.id \in 1..Len(organisations)
                  /\ r.op # "exchange-token" => expectedSecret # "" /\ r.secret = expectedSecret
                  /\ r.op = "exchange-token"
                       => /\ r.token \in 1..Len(issued)
                          /\ r.token \notin DOMAIN authTokenStore
                          /\ r.email = issued[r.token].email
     /\ \A c \in CallIds :
          ( /\ calls[c].pc = "idle" /\ calls'[c].op = "exchange-token"
            /\ calls'[c].pc \notin {"idle", "done"} )
          => /\ calls'[c].token \in DOMAIN authTokenStore
             /\ now - authTokenStore[calls'[c].token].createdAt <= TOKEN_EXPIRY_MS
             /\ calls'[c].token \notin DOMAIN authTokenStore'
             /\ \A d \in CallIds \ {c} : ~(HoldsClaim(d) /\ calls[d].token = calls'[c].token)
     /\ \A c \in CallIds :
          ( /\ calls[c].pc = "idle"
            /\ calls'[c].op \in {"authorize", "authorize-business"}
            /\ calls'[c].pc \notin {"idle", "done"} )
          => expectedSecret # "" /\ calls'[c].secret = expectedSecret]_vars

\* an exchange-token call was given a session and answered 200
C34_SessionByExchange ==
  \E s \in sessions :
    /\ calls[s[1]].op = "exchange-token"
    /\ calls[s[1]].pc = "done" /\ calls[s[1]].status = 200
    /\ calls[s[1]].respUser.id = s[2]

\* C35: the step in which exchange-token receives a token takes it out of the store,
\* whatever the call does next; a token that has left the store never returns to it,
\* so the 500 of a call that failed after that step leaves it gone; and a call that
\* presents a token that is not in the store is answered 401.
C35_TokenSpentOnFailure ==
  [][/\ \A c \in CallIds :
          /\ (calls[c].pc = "idle" /\ calls'[c].op = "exchange-token")
             => /\ calls'[c].token \notin DOMAIN authTokenStore'
                /\ calls'[c].token \in 1..Len(issued) /\ calls'[c].token \notin DOMAIN authTokenStore
                     => calls'[c].pc = "done" /\ calls'[c].status = 401
          /\ ( /\ calls[c].op = "exchange-token" /\ calls[c].pc # "done"
               /\ calls'[c].pc = "done" /\ calls'[c].status = 500 )
             => /\ calls'[c].token = calls[c].token
                /\ calls[c].token \notin DOMAIN authTokenStore'
                /\ UNCHANGED authTokenStore
     /\ \A t \in 1..Len(issued) :
          t \notin DOMAIN authTokenStore => t \notin DOMAIN authTokenStore']_vars

\* an exchange-token call took an issued token and was answered 500
C35_FailedAfterTaking ==
  \E c \in CallIds :
    /\ calls[c].op = "exchange-token" /\ calls[c].pc = "done" /\ calls[c].status = 500
    /\ calls[c].token \in 1..Len(issued)
    /\ calls[c].token \notin DOMAIN authTokenStore

\* C36: no step of an authorize-business or exchange-token call changes or removes
\* a membership that exists: the rows stay in place with their group, and rows are
\* only added; a call that finds a membership of its user in the organisation goes
\* on without a write, whatever role it asks for.
C36_MembershipKept ==
  [][\A c \in CallIds :
       /\ (calls[c].op \in Provisions /\ calls'[c] # calls[c])
          => /\ Len(members') >= Len(members)
             /\ \A i \in 1..Len(members) : members'[i] = members[i]
       /\ ( /\ calls[c].pc = "findMember" /\ calls'[c] # calls[c]
            /\ MembersOf(calls[c].user.id, calls[c].organisation.id) # {} )
          => calls'[c].pc = "onAuthorize" /\ members' = members]_vars

\* a call asked for MANAGER for a user who is ADMIN in the organisation, was
\* answered 200, and the user is ADMIN still
C36_AskedAnotherRole ==
  \E c \in CallIds :
    /\ calls[c].op \in Provisions /\ calls[c].pc = "done" /\ calls[c].status = 200
    /\ calls[c].role = "MANAGER"
    /\ MembersOf(calls[c].respUser.id, calls[c].respOrg) # {}
    /\ \A i \in MembersOf(calls[c].respUser.id, calls[c].respOrg) : members[i].group = "ADMIN"

\* C37: no step changes the email, the identity provider or the verification of the
\* email of a user that exists, or the row a user id stands for; so a user who had
\* a provider other than EXTERNAL before signing in through this route has it
\* afterwards, and the settings loader serves them.
C37_OnlyTheNameChanges ==
  [][/\ Len(users') >= Len(users)
     /\ \A u \in 1..Len(users) :
          /\ users'[u].email = users[u].email
          /\ users'[u].identityProvider = users[u].identityProvider
          /\ users'[u].emailVerified = users[u].emailVerified
     /\ \A v \in settings' \ settings :
          ( /\ v.user # 0
            /\ \E s \in sessions : s[2] = v.user
            /\ users[v.user].identityProvider # "EXTERNAL" )
          => v.outcome = "settings"]_vars

\* a user with a password was renamed and given a session by this route, and was
\* then served a settings page
C37_FederatedKeepsSettings ==
  \E v \in settings, s \in sessions :
    /\ s[2] = v.user
    /\ users[v.user].identityProvider = "DOCUMENSO"
    /\ users[v.user].name = "Ann"
    /\ v.outcome = "settings"

C39_SweepAndExchangeAgree ==
  [][/\ \A t \in DOMAIN authTokenStore :
          SweepRemoves(authTokenStore[t]) <=> ExchangeRejects(authTokenStore[t])
     /\ (calls' = calls /\ issued' = issued /\ now' = now /\ authTokenStore' # authTokenStore)
          => DOMAIN authTokenStore' =
               {t \in DOMAIN authTokenStore : now - authTokenStore[t].createdAt <= TOKEN_EXPIRY_MS}
     /\ \A c \in CallIds :
          ( /\ calls[c].pc = "idle" /\ calls'[c].op = "exchange-token"
            /\ calls'[c].token \in DOMAIN authTokenStore )
          => LET age == now - authTokenStore[calls'[c].token].createdAt
             IN /\ age > TOKEN_EXPIRY_MS
                     => /\ calls'[c].pc = "done" /\ calls'[c].status = 401
                        /\ calls'[c].message = "Token has expired"
                /\ age <= TOKEN_EXPIRY_MS => calls'[c].pc = "findUser"]_vars

\* a token exactly TOKEN_EXPIRY_MS old was exchanged
C39_ExchangedAtExpiry ==
  \E c \in CallIds :
    /\ calls[c].op = "exchange-token" /\ calls[c].pc = "findUser"
    /\ calls[c].token \in 1..Len(issued)
    /\ Age(calls[c].token) = TOKEN_EXPIRY_MS

\* C40: generate-token writes the token store and nothing else. Answered 200, it
\* has added one entry, under the token of its response and of the redirectUrl in
\* it, holding the fields of the request, and every other entry is as it was;
\* refused, with 400 for an empty field or otherwise, it has added none; and no
\* user, organisation, team, membership, credential, session or webhook request
\* comes of it.
C40_GenerateWritesOnlyTheStore ==
  [][\A c \in CallIds :
       (calls[c].pc = "idle" /\ calls'[c].op = "generate-token")
       => /\ calls'[c].pc = "done"
          /\ UNCHANGED <<users, organisations, teams, members, apiTokens, sessions, webhooks>>
          /\ calls'[c].status = 200
               => LET k == calls'[c].token
                  IN /\ k \notin DOMAIN authTokenStore
                     /\ DOMAIN authTokenStore' = DOMAIN authTokenStore \cup {k}
                     /\ \A t \in DOMAIN authTokenStore : authTokenStore'[t] = authTokenStore[t]
                     /\ authTokenStore'[k].email = calls'[c].email
                     /\ authTokenStore'[k].businessId = calls'[c].businessId
                     /\ authTokenStore'[k].createdAt = now
                     /\ GeneratedQuery(calls'[c]) = [present |-> TRUE, value |-> k]
          /\ calls'[c].status # 200 => authTokenStore' = authTokenStore
          /\ ( \/ calls'[c].email = <<>> \/ calls'[c].name = ""
               \/ calls'[c].businessId = <<>> \/ calls'[c].businessName = "" )
               => calls'[c].status # 200]_vars

\* one generate-token call was answered 200 and its entry is in the store, a later
\* one was answered 400, and the database is as it was at the start
C40_IssuedAndRefused ==
  \E c, d \in CallIds :
    /\ c < d
    /\ calls[c].op = "generate-token" /\ calls[c].status = 200
    /\ calls[c].token \in DOMAIN authTokenStore
    /\ calls[d].op = "generate-token" /\ calls[d].status = 400
    /\ Cardinality(DOMAIN authTokenStore) = 1
    /\ users = <<>> /\ sessions = {}

====
